---- MODULE Spec2Model ----
(***************************************************************************)
(* Model of the RAG pipeline of the DeepFocus study assistant: the index   *)
(* builder (triggerIndex / indexPdf / saveIndex / loadIndex), the status   *)
(* row kept by createOrUpdateIndex, the thread store (getOrCreateThread)   *)
(* and the streaming chat turn (POST /api/chat/stream), followed by the    *)
(* functions of the retrieval and prompt path (mmrSearch, compressContext, *)
(* retrieveContext, buildPrompt, getThreadSummary), each called on inputs  *)
(* drawn from bounded sets.                                                *)
(*                                                                         *)
(* One document (one fileId) is modelled.  Every action is one step        *)
(* between two awaits of the TypeScript code that touches shared state     *)
(* (the MySQL rows, the index file, the PDF on disk, the HTTP response).   *)
(* The relational store is assumed reachable: getDb() returns a handle and *)
(* statements fail only for the reasons the schema gives (duplicate key).  *)
(***************************************************************************)
EXTENDS Integers, Sequences, FiniteSets, TLC

(***************************************************************************)
(* Bounds of the model.                                                    *)
(***************************************************************************)
\* number of triggerIndex calls issued in one behaviour
MaxTriggers == 2
\* number of successive contents of the PDF; the last one carries no text
NumContents == 2

\* number of getOrCreateThread callers, each calling up to MaxThreadCalls times
MaxCallers == 2
MaxThreadCalls == 2
\* seconds the database clock advances
MaxClock == 1
\* number of chat turns requested one after the other
MaxTurns == 2
\* number of content fragments the provider streams in one turn
MaxFragments == 2
\* number of chunks in a ranked list given to compressContext
MaxChunks == 3
\* chunk sizes drawn as inputs: TokenUnit, 2 TokenUnit, ... estimated tokens
TokenUnit == 30
MaxTokenUnits == 3
\* token budgets drawn as inputs: 0, BudgetUnit, 2 BudgetUnit, ...
BudgetUnit == 35
MaxBudgetUnits == 6
\* number of lines in the provider's answer to the paraphrase request
MaxLines == 2
\* lengths of the long texts given to buildPrompt: TextUnit characters,
\* 2 TextUnit, ...
TextUnit == 4000
MaxTextUnits == 3
\* number of stored messages of the thread given to getThreadSummary
MaxThreadLen == 102
\* pages of a document given to chunkText and words of one page
MaxPages == 2
MaxPageWords == 2
\* largest chunkSize and overlap given to chunkText
MaxChunkSize == 3
MaxOverlap == 2

Calls == 1..MaxTriggers
Contents == 1..NumContents
Callers == 1..MaxCallers

(***************************************************************************)
(* Values.                                                                 *)
(***************************************************************************)
\* SQL NULL of a text column / of a numeric column
NullText == "NULL"
NullNum == 0

\* milestones passed to onProgress by indexPdf
ProgressValues == {10, 30, 50, 80, 100}

\* `.local-storage/indexes/${fileId}.json` of the one modelled document
IndexPathOfFile == "indexes/1.json"

\* crypto md5 of the file bytes: a different value for different content
computeChecksum(content) == 100 + content

\* extractPdfText + chunkText, abstracted to the number of chunks the
\* content yields (the last content carries no text at all)
ChunkCountOf(content) == NumContents - content

VARIABLES
    pdfFile,        \* content of the PDF currently on disk
    pdfIndexes,     \* the row of table pdfIndexes for the document
    indexFile,      \* the artifact .local-storage/indexes/<fileId>.json
    calls,          \* the triggerIndex calls and their background builds
    progressWrites, \* un-awaited onProgress updates in flight, per milestone
    embedCalls,     \* number of embeddings.create requests made
    lastWrite,      \* history: who wrote pdfIndexes last
    readers,        \* loadIndex calls in progress
    pdfThreads,     \* rows of table pdfThreads, in insertion order
    threadCalls,    \* getOrCreateThread calls
    now,            \* the database clock, in seconds
    pdfMessages,    \* rows of table pdfMessages, in creation order
    turn,           \* the /api/chat/stream request being handled
    events,         \* SSE events written to the response, in order
    provider,       \* the provider's token stream of the turn
    client,         \* the downstream consumer of the response
    args,           \* the arguments of a call of a pure function
    result          \* what the call returned

indexVars == <<pdfFile, pdfIndexes, indexFile, calls,
               progressWrites, embedCalls, lastWrite>>
readerVars == <<readers>>
threadVars == <<pdfThreads, threadCalls, now>>
chatVars == <<pdfMessages, turn, events, provider, client>>
callVars == <<args, result>>
vars == <<pdfFile, pdfIndexes, indexFile, calls, progressWrites,
          embedCalls, lastWrite, readers, pdfThreads, threadCalls, now,
          pdfMessages, turn, events, provider, client, args, result>>

\* no call of a pure function is under way
NoArgs == [fn |-> "none"]
\* a call that has not returned
NoResult == [returned |-> FALSE]
\* a call that returned value
Returned(value) == [returned |-> TRUE, threw |-> FALSE, value |-> value]
\* a call that threw
Threw(message) == [returned |-> TRUE, threw |-> TRUE, value |-> message]

InitCalls == args = NoArgs /\ result = NoResult

(***************************************************************************)
(* Table pdfIndexes.  An absent row is the record of column defaults with  *)
(* present = FALSE; getStatus answers an absent row with the same PENDING  *)
(* defaults.                                                               *)
(***************************************************************************)
NoRow ==
    [present |-> FALSE, status |-> "PENDING", progress |-> 0,
     chunkCount |-> 0, checksum |-> NullNum, indexPath |-> NullText,
     errorMessage |-> NullText, indexedAt |-> NullNum]

\* getIndexByFileId: the row, or undefined
getIndexByFileId == pdfIndexes

\* fault variant of SetColumns: the columns that are not supplied go back
\* to their defaults
SetColumns_ResetsOthers(row, data) ==
    [f \in DOMAIN row |->
        IF f \in DOMAIN data THEN data[f]
        ELSE IF f = "present" THEN row[f] ELSE NoRow[f]]

\* db.update(pdfIndexes).set(data): only the supplied columns change
SetColumns(row, data) ==
    [f \in DOMAIN row |-> IF f \in DOMAIN data THEN data[f] ELSE row[f]]

\* db.insert(pdfIndexes).values(data): absent columns take their defaults
InsertRow(data) == SetColumns([NoRow EXCEPT !.present = TRUE], data)

\* createOrUpdateIndex with the row found by its own select: update an
\* existing row, insert otherwise.
createOrUpdateIndex(row, data) ==
    IF row.present THEN SetColumns(row, data) ELSE InsertRow(data)

\* POST /api/chat/stream, index status check: the turn goes on only for a
\* READY row
\* fault variant of IndexReadyForChat: any status row opens the chat
IndexReadyForChat_AnyRow(row) == row.present

IndexReadyForChat(row) == row.present /\ row.status = "READY"

\* indexes.getStatus: what a polling client is shown
getStatus ==
    [status |-> getIndexByFileId.status,
     progress |-> getIndexByFileId.progress,
     chunkCount |-> getIndexByFileId.chunkCount]

(***************************************************************************)
(* The index artifact.  The file is a sequence of blocks as read and       *)
(* written by the file system: the head (fileId, checksum), one block per  *)
(* chunk, the tail (indexedAt, totalChunks).                               *)
(***************************************************************************)
NoFile == [exists |-> FALSE, data |-> <<>>]

Block(kind, a, b) == [k |-> kind, a |-> a, b |-> b]

\* JSON.stringify(index): chunks of content src, checksum sum, built by call i
Serialize(sum, src, n, i) ==
    <<Block("head", sum, 0)>>
    \o [j \in 1..n |-> Block("chunk", src, j)]
    \o <<Block("tail", i, n)>>

\* JSON.parse succeeds only on a complete document
WellFormed(data) ==
    /\ Len(data) >= 2
    /\ data[1].k = "head"
    /\ data[Len(data)].k = "tail"
    /\ \A j \in 2..(Len(data) - 1) : data[j].k = "chunk"

NullIndex == [ok |-> FALSE, checksum |-> NullNum, chunks |-> <<>>,
              indexedAt |-> NullNum, totalChunks |-> 0]

\* JSON.parse(data) as PdfIndex, null when parsing throws
ParseIndex(data) ==
    IF WellFormed(data)
    THEN [ok |-> TRUE, checksum |-> data[1].a,
          chunks |-> SubSeq(data, 2, Len(data) - 1),
          indexedAt |-> data[Len(data)].a,
          totalChunks |-> data[Len(data)].b]
    ELSE NullIndex

\* loadIndex on a file nobody is writing
loadIndexQuiet(file) ==
    IF file.exists THEN ParseIndex(file.data) ELSE NullIndex

(***************************************************************************)
(* loadIndex: fs.readFile opens the file, takes its size from fstat and    *)
(* reads block after block until that size is reached or the file ends     *)
(* (until the file ends when the size was 0); a missing file and a parse   *)
(* error both give null.  seen is history: the complete documents that the *)
(* file held while the call was reading.                                   *)
(***************************************************************************)
IdleReader ==
    [pc |-> "idle", size |-> 0, buf |-> <<>>, seen |-> {},
     result |-> NullIndex]

LoadIndexOpen ==
    /\ readers.pc = "idle"
    /\ IF indexFile.exists
       THEN readers' = [readers EXCEPT
                !.pc = "reading",
                !.size = Len(indexFile.data),
                !.seen = IF WellFormed(indexFile.data)
                         THEN {indexFile.data} ELSE {}]
       ELSE readers' = [readers EXCEPT !.pc = "done"]
    /\ UNCHANGED <<indexVars, threadVars, chatVars, callVars>>

LoadIndexRead ==
    /\ readers.pc = "reading"
    /\ LET pos == Len(readers.buf) IN
       IF pos < Len(indexFile.data) /\ (readers.size = 0 \/ pos < readers.size)
       THEN readers' = [readers EXCEPT
                !.buf = Append(@, indexFile.data[pos + 1])]
       ELSE readers' = [readers EXCEPT
                !.pc = "done",
                !.buf = <<>>,
                !.size = 0,
                !.result = ParseIndex(readers.buf)]
    /\ UNCHANGED <<indexVars, threadVars, chatVars, callVars>>

\* history kept for a reading loadIndex call when saveIndex completes
NoteSaved(r, data) ==
    IF r.pc = "reading" THEN [r EXCEPT !.seen = @ \cup {data}] ELSE r

(***************************************************************************)
(* triggerIndex and its background build.                                  *)
(***************************************************************************)
IdleCall ==
    [pc |-> "idle", existing |-> FALSE, checksum |-> NullNum, src |-> 0,
     chunkCount |-> 0, ok |-> TRUE, error |-> NullText,
     hadReady |-> FALSE, before |-> NoFile, ret |-> NullText]

Running(i) ==
    calls[i].pc \notin {"idle", "done", "returned", "threw"}

\* fault variant of AlreadyIndexed: the checksum comparison inverted
AlreadyIndexed_Inverted(row, content) ==
    /\ row.present
    /\ row.status = "READY"
    /\ row.checksum # computeChecksum(content)

\* lines 72-82: a READY row whose checksum is the file's current checksum
AlreadyIndexed(row, content) ==
    /\ row.present
    /\ row.status = "READY"
    /\ row.checksum = computeChecksum(content)

\* triggerIndex up to the decision whether to build (lines 59-82)
TriggerIndex(i) ==
    /\ calls[i].pc = "idle"
    /\ \A j \in Calls : j < i => calls[j].pc # "idle"
    /\ IF AlreadyIndexed(getIndexByFileId, pdfFile)
       THEN calls' = [calls EXCEPT ![i].pc = "returned",
                                   ![i].ret = "File already indexed"]
       ELSE calls' = [calls EXCEPT
                ![i].pc = "setIndexing",
                ![i].hadReady = (pdfIndexes.present
                                 /\ pdfIndexes.status = "READY"),
                ![i].before = indexFile]
    /\ UNCHANGED <<pdfFile, pdfIndexes, indexFile,
                   progressWrites, embedCalls, lastWrite>>
    /\ UNCHANGED <<readerVars, threadVars, chatVars, callVars>>

\* the caller keeps the single-flight precondition: no call while a build of
\* the document is running
TriggerIndexSingleFlight(i) ==
    /\ \A j \in Calls : ~Running(j)
    /\ TriggerIndex(i)

\* createOrUpdateIndex of line 85, its select (db.ts line 167)
SetIndexingSelect(i) ==
    /\ calls[i].pc = "setIndexing"
    /\ calls' = [calls EXCEPT ![i].pc = "setIndexingWrite",
                              ![i].existing = getIndexByFileId.present]
    /\ UNCHANGED <<pdfFile, pdfIndexes, indexFile,
                   progressWrites, embedCalls, lastWrite>>
    /\ UNCHANGED <<readerVars, threadVars, chatVars, callVars>>

\* createOrUpdateIndex of line 85, its update or insert (db.ts 169-177);
\* inserting a second row for the fileId violates pdfIndexes_fileId_unique
\* and the mutation throws before any build is started
SetIndexingWrite(i) ==
    /\ calls[i].pc = "setIndexingWrite"
    /\ LET data == [status |-> "INDEXING", progress |-> 0] IN
       IF calls[i].existing
       THEN /\ pdfIndexes' = SetColumns(pdfIndexes, data)
            /\ lastWrite' = [kind |-> "trigger", call |-> i]
            /\ calls' = [calls EXCEPT ![i].pc = "checksum",
                                      ![i].ret = "success"]
       ELSE IF pdfIndexes.present
       THEN /\ calls' = [calls EXCEPT ![i].pc = "threw",
                                      ![i].before = NoFile,
                                      ![i].hadReady = FALSE]
            /\ UNCHANGED <<pdfIndexes, lastWrite>>
       ELSE /\ pdfIndexes' = InsertRow(data)
            /\ lastWrite' = [kind |-> "trigger", call |-> i]
            /\ calls' = [calls EXCEPT ![i].pc = "checksum",
                                      ![i].ret = "success"]
    /\ UNCHANGED <<pdfFile, indexFile, progressWrites,
                   embedCalls>>
    /\ UNCHANGED <<readerVars, threadVars, chatVars, callVars>>

\* onProgress(p): the async callback is called and not awaited; its
\* createOrUpdateIndex runs on its own
Fire(pw, ps) == [p \in ProgressValues |-> IF p \in ps THEN pw[p] + 1 ELSE pw[p]]

\* indexPdf's catch (lines 575-583)
Failed(c, msg) ==
    [c EXCEPT !.pc = "final", !.ok = FALSE, !.error = msg,
              !.chunkCount = 0, !.checksum = NullNum, !.src = 0]

\* indexPdf step 1: read the file, compute the checksum, onProgress(10)
ChecksumStep(i) ==
    /\ calls[i].pc = "checksum"
    /\ \/ /\ calls' = [calls EXCEPT ![i].pc = "extract",
                          ![i].checksum = computeChecksum(pdfFile)]
          /\ progressWrites' = Fire(progressWrites, {10})
       \/ /\ calls' = [calls EXCEPT ![i] = Failed(@, "read failed")]
          /\ UNCHANGED progressWrites
    /\ UNCHANGED <<pdfFile, pdfIndexes, indexFile, embedCalls,
                   lastWrite>>
    /\ UNCHANGED <<readerVars, threadVars, chatVars, callVars>>

\* indexPdf steps 2 and 3: extractPdfText reads the file again, chunkText is
\* synchronous; onProgress(30) and onProgress(50) are called back to back
ExtractStep(i) ==
    /\ calls[i].pc = "extract"
    /\ \/ /\ calls' = [calls EXCEPT ![i].pc = "embed",
                          ![i].src = pdfFile,
                          ![i].chunkCount = ChunkCountOf(pdfFile)]
          /\ progressWrites' = Fire(progressWrites, {30, 50})
       \/ /\ calls' = [calls EXCEPT ![i] = Failed(@, "extract failed")]
          /\ UNCHANGED progressWrites
    /\ UNCHANGED <<pdfFile, pdfIndexes, indexFile, embedCalls,
                   lastWrite>>
    /\ UNCHANGED <<readerVars, threadVars, chatVars, callVars>>

\* batches of 100 chunks: no request for zero chunks, one for 1..100
EmbedRequests(n) == IF n = 0 THEN 0 ELSE 1

\* indexPdf step 4: generateEmbeddings, onProgress(80); without an API key
\* or on a provider failure it throws
EmbedStep(i) ==
    /\ calls[i].pc = "embed"
    /\ \/ /\ calls' = [calls EXCEPT ![i].pc = "saveOpen"]
          /\ embedCalls' = embedCalls + EmbedRequests(calls[i].chunkCount)
          /\ progressWrites' = Fire(progressWrites, {80})
       \/ /\ calls' = [calls EXCEPT ![i] = Failed(@, "embedding failed")]
          /\ UNCHANGED <<embedCalls, progressWrites>>
    /\ UNCHANGED <<pdfFile, pdfIndexes, indexFile, lastWrite>>
    /\ UNCHANGED <<readerVars, threadVars, chatVars, callVars>>

\* saveIndex: fs.writeFile opens the file with flag 'w', which creates or
\* truncates it
SaveOpen(i) ==
    /\ calls[i].pc = "saveOpen"
    /\ indexFile' = [exists |-> TRUE, data |-> <<>>]
    /\ calls' = [calls EXCEPT ![i].pc = "saveWrite"]
    /\ UNCHANGED <<pdfFile, pdfIndexes, progressWrites,
                   embedCalls, lastWrite>>
    /\ UNCHANGED <<readerVars, threadVars, chatVars, callVars>>

\* saveIndex: the serialized index is written; onProgress(100); a failed
\* write throws and leaves the truncated file behind
SaveWrite(i) ==
    /\ calls[i].pc = "saveWrite"
    /\ \/ /\ LET data == Serialize(calls[i].checksum, calls[i].src,
                                   calls[i].chunkCount, i)
             IN  /\ indexFile' = [exists |-> TRUE, data |-> data]
                 /\ readers' = NoteSaved(readers, data)
          /\ calls' = [calls EXCEPT ![i].pc = "final"]
          /\ progressWrites' = Fire(progressWrites, {100})
       \/ /\ calls' = [calls EXCEPT ![i] = Failed(@, "write failed")]
          /\ UNCHANGED <<indexFile, progressWrites, readers>>
    /\ UNCHANGED <<pdfFile, pdfIndexes, embedCalls, lastWrite>>
    /\ UNCHANGED <<threadVars, chatVars, callVars>>

\* fault variant of FinalData: a build without chunks is recorded as failed
FinalData_EmptyIsError(c, i) ==
    IF c.ok /\ c.chunkCount > 0
    THEN [status |-> "READY", progress |-> 100, chunkCount |-> c.chunkCount,
          checksum |-> c.checksum, indexPath |-> IndexPathOfFile,
          indexedAt |-> i]
    ELSE [status |-> "ERROR", errorMessage |-> "No text"]

\* the columns of the final write (lines 106-124)
FinalData(c, i) ==
    IF c.ok
    THEN [status |-> "READY", progress |-> 100, chunkCount |-> c.chunkCount,
          checksum |-> c.checksum, indexPath |-> IndexPathOfFile,
          indexedAt |-> i]
    ELSE [status |-> "ERROR", errorMessage |-> c.error]

\* the awaited createOrUpdateIndex that ends the background task
FinalWrite(i) ==
    /\ calls[i].pc = "final"
    /\ pdfIndexes' = createOrUpdateIndex(pdfIndexes, FinalData(calls[i], i))
    /\ lastWrite' = [kind |-> "final", call |-> i]
    /\ calls' = [calls EXCEPT ![i] = [IdleCall EXCEPT !.pc = "done",
                                                     !.ok = calls[i].ok,
                                                     !.ret = calls[i].ret]]
    /\ UNCHANGED <<pdfFile, indexFile, progressWrites,
                   embedCalls>>
    /\ UNCHANGED <<readerVars, threadVars, chatVars, callVars>>

\* one un-awaited progress update reaches the database (lines 94-104)
ProgressWrite(p) ==
    /\ progressWrites[p] > 0
    /\ progressWrites' = [progressWrites EXCEPT ![p] = @ - 1]
    /\ pdfIndexes' = createOrUpdateIndex(pdfIndexes,
                         [status |-> "INDEXING", progress |-> p])
    /\ lastWrite' = [kind |-> "progress", call |-> lastWrite.call]
    /\ UNCHANGED <<pdfFile, indexFile, calls, embedCalls>>
    /\ UNCHANGED <<readerVars, threadVars, chatVars, callVars>>

\* the PDF on disk is replaced by its next content
ChangeFile ==
    /\ pdfFile < NumContents
    /\ pdfFile' = pdfFile + 1
    /\ UNCHANGED <<pdfIndexes, indexFile, calls, progressWrites, embedCalls,
                   lastWrite>>
    /\ UNCHANGED <<readerVars, threadVars, chatVars, callVars>>

BuildStep(i) ==
    \/ SetIndexingSelect(i)
    \/ SetIndexingWrite(i)
    \/ ChecksumStep(i)
    \/ ExtractStep(i)
    \/ EmbedStep(i)
    \/ SaveOpen(i)
    \/ SaveWrite(i)
    \/ FinalWrite(i)

(***************************************************************************)
(* getOrCreateThread.  Table pdfThreads has a unique threadId and no       *)
(* constraint on fileId; createdAt is the database clock at the insert.    *)
(***************************************************************************)
\* the one modelled document
FileId == 1

IdleThreadCall == [pc |-> "idle", found |-> 0, ret |-> 0, n |-> 0]

\* select ... where fileId = f order by createdAt desc limit 1: the rows
\* the statement may return (any of the newest ones), as positions
NewestThreads(rows, f) ==
    {j \in 1..Len(rows) :
        /\ rows[j].fileId = f
        /\ \A k \in 1..Len(rows) :
              rows[k].fileId = f => rows[k].createdAt <= rows[j].createdAt}

\* randomUUID(): an id no other call produces
NewThreadId(c, n) == 10 * c + n

\* getOrCreateThread, the select (lines 186-191)
ThreadSelect(c) ==
    /\ threadCalls[c].pc \in {"idle", "returned"}
    /\ threadCalls[c].n < MaxThreadCalls
    /\ \/ /\ NewestThreads(pdfThreads, FileId) = {}
          /\ threadCalls' = [threadCalls EXCEPT
                ![c] = [pc |-> "selected", found |-> 0, ret |-> 0,
                        n |-> @.n + 1]]
       \/ \E j \in NewestThreads(pdfThreads, FileId) :
             threadCalls' = [threadCalls EXCEPT
                ![c] = [pc |-> "selected", found |-> pdfThreads[j].threadId,
                        ret |-> 0, n |-> @.n + 1]]
    /\ UNCHANGED <<pdfThreads, now>>
    /\ UNCHANGED <<indexVars, readerVars, chatVars, callVars>>

\* getOrCreateThread after the select: return the row found, or insert a
\* new thread and return its id (lines 193-204)
ThreadReturn(c) ==
    /\ threadCalls[c].pc = "selected"
    /\ IF threadCalls[c].found # 0
       THEN /\ threadCalls' = [threadCalls EXCEPT
                  ![c].pc = "returned", ![c].ret = threadCalls[c].found]
            /\ UNCHANGED pdfThreads
       ELSE LET id == NewThreadId(c, threadCalls[c].n) IN
            /\ pdfThreads' = Append(pdfThreads,
                  [threadId |-> id, fileId |-> FileId, createdAt |-> now])
            /\ threadCalls' = [threadCalls EXCEPT
                  ![c].pc = "returned", ![c].ret = id]
    /\ UNCHANGED now
    /\ UNCHANGED <<indexVars, readerVars, chatVars, callVars>>

\* a second passes on the database clock
Tick ==
    /\ now < MaxClock
    /\ now' = now + 1
    /\ UNCHANGED <<pdfThreads, threadCalls>>
    /\ UNCHANGED <<indexVars, readerVars, chatVars, callVars>>

InitThreads ==
    /\ pdfThreads = <<>>
    /\ threadCalls = [c \in Callers |-> IdleThreadCall]
    /\ now = 0

(***************************************************************************)
(* Texts.  A text is a sequence of fragments; its length in characters is  *)
(* the sum of the fragments' lengths.                                      *)
(***************************************************************************)
\* content fragments the provider may stream (delta.content, never empty)
Fragments == {"Yes", "maybe"}

\* the user's question
UserMessage == <<"Why?">>

\* String.length of one fragment
FragLen(f) ==
    CASE f = "Yes" -> 3
      [] f = "maybe" -> 5
      [] f = "Why?" -> 4
      [] OTHER -> 1

RECURSIVE TextLen(_)
TextLen(text) ==
    IF text = <<>> THEN 0 ELSE FragLen(Head(text)) + TextLen(Tail(text))

\* Math.ceil(content.length / 4)
estimateMessageTokens(content) == (TextLen(content) + 3) \div 4

(***************************************************************************)
(* POST /api/chat/stream.                                                  *)
(***************************************************************************)
\* the thread id the client sends
ThreadId == 11

Event(type, content) == [type |-> type, content |-> content]

Message(role, content, citations) ==
    [threadId |-> ThreadId, role |-> role, content |-> content,
     tokenCount |-> estimateMessageTokens(content), citations |-> citations]

\* fault variant of addMessage: the row replaces the newest stored row
addMessage_ReplacesNewest(msgs, data) ==
    IF msgs = <<>> THEN <<data>>
    ELSE [msgs EXCEPT ![Len(msgs)] = data]

\* addMessage: db.insert(pdfMessages).values(data)
addMessage(msgs, data) == Append(msgs, data)

IdleTurn ==
    [pc |-> "idle", n |-> 0, fileRow |-> TRUE, chunks |-> <<>>,
     retrievalError |-> NullText, citations |-> <<>>, fullResponse |-> <<>>,
     before |-> <<>>, outcome |-> NullText, failedBefore |-> FALSE,
     retrieved |-> FALSE]

IdleProvider == [state |-> "idle", pulled |-> 0]

IdleClient == [connected |-> FALSE, midStream |-> FALSE, pulledAtClose |-> 0]

\* the request arrives; a request with a missing field is answered 400 and
\* writes no event (lines 221-226)
Request ==
    /\ turn.pc \in {"idle", "ended", "rejected"}
    /\ turn.n < MaxTurns
    /\ \E valid \in BOOLEAN, fileRow \in BOOLEAN :
         turn' = [IdleTurn EXCEPT
             !.pc = IF valid THEN "checkIndex" ELSE "rejected",
             !.outcome = IF valid THEN NullText ELSE "400",
             !.n = turn.n + 1,
             !.fileRow = fileRow,
             !.before = pdfMessages,
             !.failedBefore = turn.failedBefore
                              \/ turn.outcome = "streamFailed"]
    /\ events' = <<>>
    /\ provider' = IdleProvider
    /\ client' = [IdleClient EXCEPT !.connected = TRUE]
    /\ UNCHANGED pdfMessages
    /\ UNCHANGED <<indexVars, readerVars, threadVars, callVars>>

\* res.write of an error event followed by res.end() and return
EndWithError(ev, msg) == Append(ev, Event("error", msg))

\* the index status check (lines 240-246)
CheckIndex ==
    /\ turn.pc = "checkIndex"
    /\ IF IndexReadyForChat(getIndexByFileId)
       THEN /\ turn' = [turn EXCEPT !.pc = "getFile"]
            /\ UNCHANGED events
       ELSE /\ turn' = [turn EXCEPT !.pc = "ended", !.outcome = "notIndexed"]
            /\ events' = EndWithError(events, "PDF not indexed yet")
    /\ UNCHANGED <<pdfMessages, provider, client>>
    /\ UNCHANGED <<indexVars, readerVars, threadVars, callVars>>

\* getPdfFileById (lines 248-254)
GetFile ==
    /\ turn.pc = "getFile"
    /\ IF turn.fileRow
       THEN /\ turn' = [turn EXCEPT !.pc = "saveUser"]
            /\ UNCHANGED events
       ELSE /\ turn' = [turn EXCEPT !.pc = "ended", !.outcome = "noFile"]
            /\ events' = EndWithError(events, "PDF file not found")
    /\ UNCHANGED <<pdfMessages, provider, client>>
    /\ UNCHANGED <<indexVars, readerVars, threadVars, callVars>>

\* fault variant of SaveUser: the handler goes on without storing the
\* question
SaveUser_NotStored ==
    /\ turn.pc = "saveUser"
    /\ turn' = [turn EXCEPT !.pc = "retrieve"]
    /\ UNCHANGED <<pdfMessages, events, provider, client>>
    /\ UNCHANGED <<indexVars, readerVars, threadVars, callVars>>

\* the user message is stored (lines 256-262)
SaveUser ==
    /\ turn.pc = "saveUser"
    /\ pdfMessages' = addMessage(pdfMessages,
                                 Message("user", UserMessage, <<>>))
    /\ turn' = [turn EXCEPT !.pc = "retrieve"]
    /\ UNCHANGED <<events, provider, client>>
    /\ UNCHANGED <<indexVars, readerVars, threadVars, callVars>>

\* retrieveContext: an error result when there is no index or no chunk, or
\* when a later stage threw (its catch); the chunks otherwise
retrieveContext(file) ==
    LET index == loadIndexQuiet(file) IN
    IF ~index.ok \/ Len(index.chunks) = 0
    THEN {[chunks |-> <<>>, error |-> "No index found or index is empty"]}
    ELSE {[chunks |-> index.chunks, error |-> NullText],
          [chunks |-> <<>>, error |-> "retrieval failed"]}

\* retrieval and the check of its result (lines 264-273)
Retrieve ==
    /\ turn.pc = "retrieve"
    /\ \E r \in retrieveContext(indexFile) :
         IF r.error # NullText
         THEN /\ turn' = [turn EXCEPT !.pc = "ended",
                                      !.outcome = "retrievalError",
                                      !.retrievalError = r.error,
                                      !.retrieved = TRUE]
              /\ events' = EndWithError(events, r.error)
         ELSE /\ turn' = [turn EXCEPT !.pc = "summary", !.chunks = r.chunks,
                                      !.retrieved = TRUE]
              /\ UNCHANGED events
    /\ UNCHANGED <<pdfMessages, provider, client>>
    /\ UNCHANGED <<indexVars, readerVars, threadVars, callVars>>

\* getThreadSummary reads the thread's messages (line 276)
Summary ==
    /\ turn.pc = "summary"
    /\ turn' = [turn EXCEPT !.pc = "prompt"]
    /\ UNCHANGED <<pdfMessages, events, provider, client>>
    /\ UNCHANGED <<indexVars, readerVars, threadVars, callVars>>

\* the citation of a chunk block
Citation(chunk) == [chunk_no |-> chunk.b, src |-> chunk.a]

\* buildPrompt cites the chunks it includes: a prefix of the ranked chunks
\* (which prefix is decided by the token budget)
Prefixes(chunks) == {SubSeq(chunks, 1, k) : k \in 0..Len(chunks)}

\* buildPrompt and the first timing event (lines 278-288); the stream is
\* requested next
Prompt ==
    /\ turn.pc = "prompt"
    /\ \E included \in Prefixes(turn.chunks) :
         turn' = [turn EXCEPT
             !.pc = "stream",
             !.citations = [j \in 1..Len(included) |-> Citation(included[j])]]
    /\ events' = Append(events, Event("timing", "retrieval"))
    /\ provider' = [state |-> "open", pulled |-> 0]
    /\ UNCHANGED <<pdfMessages, client>>
    /\ UNCHANGED <<indexVars, readerVars, threadVars, callVars>>

\* one iteration of the for-await loop that receives a token (lines 294-297)
PullToken ==
    /\ turn.pc = "stream"
    /\ provider.state = "open"
    /\ provider.pulled < MaxFragments
    /\ \E f \in Fragments :
         /\ turn' = [turn EXCEPT !.fullResponse = Append(@, f)]
         /\ events' = Append(events, Event("token", f))
    /\ provider' = [provider EXCEPT !.pulled = @ + 1]
    /\ UNCHANGED <<pdfMessages, client>>
    /\ UNCHANGED <<indexVars, readerVars, threadVars, callVars>>

\* the provider signals completion and the loop ends
StreamEnd ==
    /\ turn.pc = "stream"
    /\ provider.state = "open"
    /\ provider' = [provider EXCEPT !.state = "completed"]
    /\ turn' = [turn EXCEPT !.pc = "saveAssistant"]
    /\ UNCHANGED <<pdfMessages, events, client>>
    /\ UNCHANGED <<indexVars, readerVars, threadVars, callVars>>

\* fault variant of OnStreamError: the catch only logs and ends the response
OnStreamError_LogsOnly(ev) == ev

\* the handler's catch (lines 325-329): the error event, then res.end()
OnStreamError(ev) == EndWithError(ev, "stream failed")

\* fault variant of MessagesAfterStreamError: the catch stores the partial
\* response
MessagesAfterStreamError_KeepsPartial(msgs, t) ==
    addMessage(msgs, Message("assistant", t.fullResponse, t.citations))

\* what the catch stores of the turn: nothing
MessagesAfterStreamError(msgs, t) == msgs

\* the provider fails (no API key, request or connection error): the
\* generator throws into the loop and the catch runs
StreamFail ==
    /\ turn.pc = "stream"
    /\ provider.state = "open"
    /\ provider' = [provider EXCEPT !.state = "failed"]
    /\ events' = OnStreamError(events)
    /\ pdfMessages' = MessagesAfterStreamError(pdfMessages, turn)
    /\ turn' = [turn EXCEPT !.pc = "ended", !.outcome = "streamFailed"]
    /\ UNCHANGED client
    /\ UNCHANGED <<indexVars, readerVars, threadVars, callVars>>

\* fault variant of SaveAssistant: the answer is stored without citations
SaveAssistant_NoCitations ==
    /\ turn.pc = "saveAssistant"
    /\ pdfMessages' = addMessage(pdfMessages,
           Message("assistant", turn.fullResponse, <<>>))
    /\ turn' = [turn EXCEPT !.pc = "sendDone"]
    /\ UNCHANGED <<events, provider, client>>
    /\ UNCHANGED <<indexVars, readerVars, threadVars, callVars>>

\* the assistant message is stored (lines 305-312)
SaveAssistant ==
    /\ turn.pc = "saveAssistant"
    /\ pdfMessages' = addMessage(pdfMessages,
           Message("assistant", turn.fullResponse, turn.citations))
    /\ turn' = [turn EXCEPT !.pc = "sendDone"]
    /\ UNCHANGED <<events, provider, client>>
    /\ UNCHANGED <<indexVars, readerVars, threadVars, callVars>>

\* the done event with the citations and res.end() (lines 314-324)
SendDone ==
    /\ turn.pc = "sendDone"
    /\ events' = Append(events, Event("done", turn.citations))
    /\ turn' = [turn EXCEPT !.pc = "ended", !.outcome = "done"]
    /\ UNCHANGED <<pdfMessages, provider, client>>
    /\ UNCHANGED <<indexVars, readerVars, threadVars, callVars>>

\* the downstream consumer closes the connection; the handler registers no
\* close listener and res.write on a closed response does not throw
Disconnect ==
    /\ turn.pc \notin {"idle", "ended", "rejected"}
    /\ client.connected
    /\ client' = [connected |-> FALSE,
                  midStream |-> (turn.pc = "stream"),
                  pulledAtClose |-> provider.pulled]
    /\ UNCHANGED <<pdfMessages, turn, events, provider>>
    /\ UNCHANGED <<indexVars, readerVars, threadVars, callVars>>

InitChat ==
    /\ pdfMessages = <<>>
    /\ turn = IdleTurn
    /\ events = <<>>
    /\ provider = IdleProvider
    /\ client = IdleClient

InitIndex ==
    /\ pdfFile = 1
    /\ pdfIndexes = NoRow
    /\ indexFile = NoFile
    /\ calls = [i \in Calls |-> IdleCall]
    /\ progressWrites = [p \in ProgressValues |-> 0]
    /\ embedCalls = 0
    /\ lastWrite = [kind |-> "none", call |-> 0]

InitReader == readers = IdleReader

InitBuild ==
    InitIndex /\ InitReader /\ InitThreads /\ InitChat /\ InitCalls

NextBuild ==
    \/ \E i \in Calls : TriggerIndexSingleFlight(i)
    \/ \E i \in Calls : BuildStep(i)
    \/ \E p \in ProgressValues : ProgressWrite(p)
    \/ ChangeFile

SpecBuild == InitBuild /\ [][NextBuild]_vars

\* triggerIndex calls that overlap running builds of the document
NextOverlap ==
    \/ \E i \in Calls : TriggerIndex(i)
    \/ \E i \in Calls : BuildStep(i)
    \/ \E p \in ProgressValues : ProgressWrite(p)
    \/ ChangeFile

SpecOverlap == InitBuild /\ [][NextOverlap]_vars

\* one loadIndex call running next to single-flight builds
NextArtifact ==
    \/ NextBuild
    \/ LoadIndexOpen
    \/ LoadIndexRead

SpecArtifact == InitBuild /\ [][NextArtifact]_vars

\* callers of getOrCreateThread for the document, in any interleaving
NextThreads ==
    \/ \E c \in Callers : ThreadSelect(c)
    \/ \E c \in Callers : ThreadReturn(c)
    \/ Tick

SpecThreads == InitBuild /\ [][NextThreads]_vars

\* the states of the index a chat turn can meet: no row, a build under way,
\* a failed first build, or the READY index of a finished build
ChatIndexStates ==
    {<<NoRow, NoFile>>,
     <<InsertRow([status |-> "INDEXING", progress |-> 0]), NoFile>>,
     <<InsertRow([status |-> "ERROR", errorMessage |-> "extract failed"]),
       NoFile>>}
    \cup
    {<<InsertRow([status |-> "READY", progress |-> 100,
                  chunkCount |-> ChunkCountOf(c),
                  checksum |-> computeChecksum(c),
                  indexPath |-> IndexPathOfFile, indexedAt |-> 1]),
       [exists |-> TRUE,
        data |-> Serialize(computeChecksum(c), c, ChunkCountOf(c), 1)]>>
        : c \in Contents}

InitChatTurns ==
    /\ pdfFile \in Contents
    /\ \E st \in ChatIndexStates :
         /\ pdfIndexes = st[1]
         /\ indexFile = st[2]
    /\ calls = [i \in Calls |-> IdleCall]
    /\ progressWrites = [p \in ProgressValues |-> 0]
    /\ embedCalls = 0
    /\ lastWrite = [kind |-> "none", call |-> 0]
    /\ InitReader
    /\ InitThreads
    /\ InitChat
    /\ InitCalls

NextChat ==
    \/ Request
    \/ CheckIndex
    \/ GetFile
    \/ SaveUser
    \/ Retrieve
    \/ Summary
    \/ Prompt
    \/ PullToken
    \/ StreamEnd
    \/ StreamFail
    \/ SaveAssistant
    \/ SendDone
    \/ Disconnect

SpecChat == InitChatTurns /\ [][NextChat]_vars

(***************************************************************************)
(* Retrieval (retrieval.ts).  A chunk is the record of the PdfChunk fields *)
(* the ranking and the compression read: chunk_no, tokens, the length of   *)
(* content in characters, whether content matches a definition pattern,    *)
(* and the embedding.  Similarities are in thousandths.                    *)
(***************************************************************************)
\* a chunk as chunkText produces it from words of three letters: every word
\* and its space is one estimated token, the trailing space is trimmed
PdfChunk(no, tokens, definitional, embedding) ==
    [chunk_no |-> no, tokens |-> tokens, len |-> 4 * tokens - 1,
     definitional |-> definitional, hasEmbedding |-> TRUE,
     embedding |-> embedding, similarity |-> 0]

\* token counts of the chunks drawn as inputs
ChunkTokenChoices == {TokenUnit * j : j \in 1..MaxTokenUnits}
\* token budgets drawn as inputs
BudgetChoices == {BudgetUnit * j : j \in 0..MaxBudgetUnits}

RECURSIVE SumTokens(_)
\* chunks.reduce((sum, c) => sum + c.tokens, 0)
SumTokens(chunks) ==
    IF chunks = <<>> THEN 0
    ELSE Head(chunks).tokens + SumTokens(Tail(chunks))

\* content.substring(0, charLimit).length
SubstringLen(len, charLimit) ==
    IF charLimit <= 0 THEN 0
    ELSE IF charLimit < len THEN charLimit ELSE len

\* fault variant of TruncatedChunk: the content is cut without the marker
TruncatedChunk_NoMarker(chunk, remainingTokens) ==
    [chunk EXCEPT !.len = SubstringLen(chunk.len, remainingTokens * 4),
                  !.tokens = remainingTokens]

\* the truncated copy of a chunk that compressContext pushes
TruncatedChunk(chunk, remainingTokens) ==
    [chunk EXCEPT !.len = SubstringLen(chunk.len, remainingTokens * 4) + 3,
                  !.tokens = remainingTokens]

\* fault variant of CanTruncate: any overflowing chunk is pushed whole
CanTruncate_KeepsWhole(chunk, remainingTokens) ==
    [push |-> TRUE, chunk |-> chunk]

\* the else branch of the loop: a partial chunk if more than 50 tokens remain
CanTruncate(chunk, remainingTokens) ==
    IF remainingTokens > 50
    THEN [push |-> TRUE, chunk |-> TruncatedChunk(chunk, remainingTokens)]
    ELSE [push |-> FALSE, chunk |-> chunk]

RECURSIVE CompressLoop_SkipsOverflow(_, _, _)
\* fault variant of CompressLoop: a chunk that does not fit is passed over
\* and the loop goes on
CompressLoop_SkipsOverflow(chunks, totalTokens, maxTokens) ==
    IF chunks = <<>> THEN <<>>
    ELSE LET chunk == Head(chunks) IN
         IF totalTokens + chunk.tokens <= maxTokens
         THEN <<chunk>> \o CompressLoop_SkipsOverflow(Tail(chunks),
                               totalTokens + chunk.tokens, maxTokens)
         ELSE CompressLoop_SkipsOverflow(Tail(chunks), totalTokens,
                                         maxTokens)

RECURSIVE CompressLoop(_, _, _)
\* the for loop of compressContext from running total totalTokens
CompressLoop(chunks, totalTokens, maxTokens) ==
    IF chunks = <<>> THEN <<>>
    ELSE LET chunk == Head(chunks) IN
         IF totalTokens + chunk.tokens <= maxTokens
         THEN <<chunk>> \o CompressLoop(Tail(chunks),
                                        totalTokens + chunk.tokens, maxTokens)
         ELSE LET partial == CanTruncate(chunk, maxTokens - totalTokens) IN
              IF partial.push THEN <<partial.chunk>> ELSE <<>>

compressContext(chunks, maxTokens) == CompressLoop(chunks, 0, maxTokens)

\* ranked chunk lists of up to MaxChunks chunks
RankedLists ==
    UNION {[1..n -> ChunkTokenChoices] : n \in 0..MaxChunks}

RankedChunks(tokens) ==
    [j \in 1..Len(tokens) |-> PdfChunk(j - 1, tokens[j], FALSE, <<1, 0>>)]

InitCompress ==
    /\ InitIndex /\ InitReader /\ InitThreads /\ InitChat
    /\ \E tokens \in RankedLists, maxTokens \in BudgetChoices :
         args = [fn |-> "compressContext", chunks |-> RankedChunks(tokens),
                 maxTokens |-> maxTokens]
    /\ result = NoResult

CompressContextCall ==
    /\ args.fn = "compressContext"
    /\ ~result.returned
    /\ result' = Returned(compressContext(args.chunks, args.maxTokens))
    /\ UNCHANGED args
    /\ UNCHANGED <<indexVars, readerVars, threadVars, chatVars>>

NextCompress == CompressContextCall

SpecCompress == InitCompress /\ [][NextCompress]_vars

(***************************************************************************)
(* mmrSearch.  Embeddings are vectors of small integers; a similarity is   *)
(* the cosine in thousandths, rounded toward zero.                         *)
(***************************************************************************)
\* embeddings drawn as inputs: two opposite directions and one orthogonal
Vectors == {<<1, 0>>, <<0, 1>>, <<-1, 0>>}

\* MMR_LAMBDA, in thousandths
MMR_LAMBDA == 300

RECURSIVE DotProduct(_, _)
DotProduct(vecA, vecB) ==
    IF vecA = <<>> THEN 0
    ELSE Head(vecA) * Head(vecB) + DotProduct(Tail(vecA), Tail(vecB))

RECURSIVE SqrtBetween(_, _, _)
\* the largest r in lo..hi with r * r <= x
SqrtBetween(x, lo, hi) ==
    IF lo = hi THEN lo
    ELSE LET mid == (lo + hi + 1) \div 2 IN
         IF mid * mid <= x THEN SqrtBetween(x, mid, hi)
         ELSE SqrtBetween(x, lo, mid - 1)

\* cosineSimilarity of two vectors of the same length: 0 when a magnitude
\* is 0, dotProduct / (magnitudeA * magnitudeB) otherwise
cosineSimilarity(vecA, vecB) ==
    LET dot == DotProduct(vecA, vecB)
        magA == DotProduct(vecA, vecA)
        magB == DotProduct(vecB, vecB)
    IN IF magA = 0 \/ magB = 0 THEN 0
       ELSE LET size == SqrtBetween((dot * dot * 1000000) \div (magA * magB),
                                    0, 1000)
            IN IF dot < 0 THEN 0 - size ELSE size

RECURSIVE SumVectors(_)
\* the direction of the average query embedding: the cosine does not depend
\* on the division by queryEmbeds.length
SumVectors(queryEmbeds) ==
    IF Len(queryEmbeds) = 1 THEN Head(queryEmbeds)
    ELSE LET rest == SumVectors(Tail(queryEmbeds)) IN
         [i \in 1..Len(Head(queryEmbeds)) |-> Head(queryEmbeds)[i] + rest[i]]

\* calculatePriorityBoost: position, definition and short-chunk boosts
calculatePriorityBoost(chunk, totalChunks) ==
    (150 * (totalChunks - chunk.chunk_no)) \div totalChunks
    + (IF chunk.definitional THEN 100 ELSE 0)
    + (IF chunk.tokens >= 50 /\ chunk.tokens <= 200 THEN 50 ELSE 0)

\* fault variant of BoostedSimilarity: the cap is left out
BoostedSimilarity_Uncapped(baseSimilarity, priorityBoost) ==
    baseSimilarity + priorityBoost

\* Math.min(1.0, baseSimilarity + priorityBoost)
BoostedSimilarity(baseSimilarity, priorityBoost) ==
    IF baseSimilarity + priorityBoost > 1000 THEN 1000
    ELSE baseSimilarity + priorityBoost

\* the candidate of a chunk
Candidate(chunk, avgQueryEmbed, totalChunks) ==
    [chunk EXCEPT !.similarity =
        BoostedSimilarity(cosineSimilarity(avgQueryEmbed, chunk.embedding),
                          calculatePriorityBoost(chunk, totalChunks))]

RECURSIVE InsertBySimilarity(_, _)
\* c placed after the candidates that are at least as similar
InsertBySimilarity(sorted, c) ==
    IF sorted = <<>> THEN <<c>>
    ELSE IF Head(sorted).similarity >= c.similarity
         THEN <<Head(sorted)>> \o InsertBySimilarity(Tail(sorted), c)
         ELSE <<c>> \o sorted

RECURSIVE SortBySimilarity(_)
\* candidates.sort((a, b) => b.similarity - a.similarity), a stable sort
SortBySimilarity(candidates) ==
    IF candidates = <<>> THEN <<>>
    ELSE InsertBySimilarity(
             SortBySimilarity(SubSeq(candidates, 1, Len(candidates) - 1)),
             candidates[Len(candidates)])

RECURSIVE MaxSimilarityTo(_, _)
\* the largest cosine of candidate to a selected chunk, at least 0
MaxSimilarityTo(candidate, selected) ==
    IF selected = <<>> THEN 0
    ELSE LET sim == cosineSimilarity(candidate.embedding,
                                     Head(selected).embedding)
             rest == MaxSimilarityTo(candidate, Tail(selected))
         IN IF sim > rest THEN sim ELSE rest

\* lambda * relevance - (1 - lambda) * maxSimilarity, in millionths
MmrScore(candidate, selected, lambda) ==
    lambda * candidate.similarity
    - (1000 - lambda) * MaxSimilarityTo(candidate, selected)

RECURSIVE BestIndex(_, _, _, _, _)
\* the scan for the best remaining candidate from position i on; best is
\* the position found so far (bestScore is -Infinity while hasBest is FALSE)
BestIndex(remaining, selected, lambda, i, best) ==
    IF i > Len(remaining) THEN best.index
    ELSE LET score == MmrScore(remaining[i], selected, lambda) IN
         IF ~best.hasBest \/ score > best.score
         THEN BestIndex(remaining, selected, lambda, i + 1,
                        [hasBest |-> TRUE, score |-> score, index |-> i])
         ELSE BestIndex(remaining, selected, lambda, i + 1, best)

\* fault variant of Splice: the chosen candidate stays in remaining
Splice_KeepsAll(remaining, bestIndex) == remaining

\* remaining.splice(bestIndex, 1)
Splice(remaining, bestIndex) ==
    SubSeq(remaining, 1, bestIndex - 1)
    \o SubSeq(remaining, bestIndex + 1, Len(remaining))

RECURSIVE SelectLoop(_, _, _, _)
\* the while loop of mmrSearch
SelectLoop(selected, remaining, k, lambda) ==
    IF Len(selected) < k /\ remaining # <<>>
    THEN IF selected = <<>>
         THEN SelectLoop(<<Head(remaining)>>, Tail(remaining), k, lambda)
         ELSE LET bestIndex ==
                      BestIndex(remaining, selected, lambda, 1,
                                [hasBest |-> FALSE, score |-> 0, index |-> 1])
              IN SelectLoop(Append(selected, remaining[bestIndex]),
                            Splice(remaining, bestIndex), k, lambda)
    ELSE selected

\* mmrSearch: [] for an index without chunks or embeddings; a TypeError or
\* the Error of cosineSimilarity when a vector is missing or of another
\* length; the k selected candidates otherwise
mmrSearch(queryEmbeds, chunks, k, lambda) ==
    IF chunks = <<>> \/ ~chunks[1].hasEmbedding THEN Returned(<<>>)
    ELSE IF queryEmbeds = <<>>
    THEN Threw("Cannot read properties of undefined")
    ELSE IF \E j \in 1..Len(chunks) : ~chunks[j].hasEmbedding
    THEN Threw("Cannot read properties of undefined")
    ELSE IF \E j \in 1..Len(chunks) :
                Len(chunks[j].embedding) # Len(queryEmbeds[1])
    THEN Threw("Vectors must have the same length")
    ELSE LET avgQueryEmbed == SumVectors(queryEmbeds)
             candidates == [j \in 1..Len(chunks) |->
                               Candidate(chunks[j], avgQueryEmbed,
                                         Len(chunks))]
         IN Returned(SelectLoop(<<>>, SortBySimilarity(candidates),
                                k, lambda))

\* the chunks of an index: chunk_no dense from 0 in reading order, sizes
\* TokenUnit, 2 TokenUnit, ... in turn
IndexChunkLists ==
    UNION {[1..n -> BOOLEAN \X Vectors] : n \in 0..MaxChunks}

IndexChunks(list) ==
    [j \in 1..Len(list) |->
        PdfChunk(j - 1, TokenUnit * (1 + ((j - 1) % MaxTokenUnits)),
                 list[j][1], list[j][2])]

\* the embeddings of the query and of up to two paraphrases
QueryEmbedLists == UNION {[1..n -> Vectors] : n \in 1..3}

\* the lambda given to mmrSearch: the default, and 1 (pure relevance)
LambdaChoices == {MMR_LAMBDA, 1000}

InitMmr ==
    /\ InitIndex /\ InitReader /\ InitThreads /\ InitChat
    /\ \E list \in IndexChunkLists, queryEmbeds \in QueryEmbedLists,
          k \in 0..(MaxChunks + 1), lambda \in LambdaChoices :
         args = [fn |-> "mmrSearch", queryEmbeds |-> queryEmbeds,
                 chunks |-> IndexChunks(list), k |-> k, lambda |-> lambda]
    /\ result = NoResult

MmrSearchCall ==
    /\ args.fn = "mmrSearch"
    /\ ~result.returned
    /\ result' = mmrSearch(args.queryEmbeds, args.chunks, args.k, args.lambda)
    /\ UNCHANGED args
    /\ UNCHANGED <<indexVars, readerVars, threadVars, chatVars>>

NextMmr == MmrSearchCall

SpecMmr == InitMmr /\ [][NextMmr]_vars

(***************************************************************************)
(* retrieveContext: loadIndex, expandQuery, embedQueries, mmrSearch and    *)
(* compressContext inside one try/catch.  What the provider answers is an  *)
(* input of the call.                                                      *)
(***************************************************************************)
\* RETRIEVAL_TOP_K and MAX_CONTEXT_TOKENS when the environment sets neither
RETRIEVAL_TOP_K == 8
MAX_CONTEXT_TOKENS == 1600

\* lengths of the lines of the provider's answer, after trim
LineLens == {0, 40, 600}

\* what the chat provider does with the paraphrase request
ExpandOutcomes ==
    {[kind |-> "noKey", lines |-> <<>>], [kind |-> "failed", lines |-> <<>>]}
    \cup {[kind |-> "answered", lines |-> lines] :
            lines \in UNION {[1..n -> LineLens] : n \in 0..MaxLines}}

\* what the embedding provider does with the queries
EmbedOutcomes ==
    {[kind |-> "failed", vectors |-> <<>>],
     [kind |-> "answered", vectors |-> <<<<1>>, <<1>>, <<1>>>>]}
    \cup {[kind |-> "answered", vectors |-> v] : v \in [1..3 -> Vectors]}

\* the lines kept by filter(s => s.length > 0 && s.length < 500)
KeptLines(lines) == SelectSeq(lines, LAMBDA l : l > 0 /\ l < 500)

\* fault variant of expandQuery: every kept line is returned
expandQuery_KeepsAll(query, outcome) ==
    IF outcome.kind # "answered" THEN <<query>>
    ELSE <<query>> \o KeptLines(outcome.lines)

\* expandQuery: the query alone without key or on an error, the query and
\* up to two alternatives otherwise; a query is its length in characters
expandQuery(query, outcome) ==
    IF outcome.kind # "answered" THEN <<query>>
    ELSE LET alternatives == KeptLines(outcome.lines) IN
         <<query>> \o SubSeq(alternatives, 1,
                             IF Len(alternatives) < 2 THEN Len(alternatives)
                             ELSE 2)

\* embedQueries: one embedding per query, or the provider's error
embedQueries(queries, outcome) ==
    IF outcome.kind # "answered"
    THEN Threw("OpenAI API key not configured")
    ELSE Returned(SubSeq(outcome.vectors, 1, Len(queries)))

\* the provider's answers given to expandQuery called on its own: one line
\* more than retrieveContext is given
ExpandAnswers ==
    {[kind |-> "noKey", lines |-> <<>>], [kind |-> "failed", lines |-> <<>>]}
    \cup {[kind |-> "answered", lines |-> lines] :
            lines \in UNION {[1..n -> LineLens] : n \in 0..(MaxLines + 1)}}

\* the queries given to expandQuery, as lengths
QueryLens == {TextLen(UserMessage), 30}

\* the result retrieveContext returns from its catch and when no index is
\* found
ErrorResult(message) ==
    [chunks |-> <<>>, totalTokens |-> 0, error |-> message]

\* the body of the try block
RetrieveTry(index, query, env) ==
    IF ~index.ok \/ Len(index.chunks) = 0
    THEN Returned(ErrorResult("No index found or index is empty"))
    ELSE LET queries == expandQuery(query, env.expand)
             queryEmbeds == embedQueries(queries, env.embed)
         IN IF queryEmbeds.threw THEN queryEmbeds
            ELSE LET retrieved == mmrSearch(queryEmbeds.value, index.chunks,
                                            RETRIEVAL_TOP_K, MMR_LAMBDA)
                 IN IF retrieved.threw THEN retrieved
                    ELSE LET compressed ==
                                 compressContext(retrieved.value,
                                                 env.maxTokens)
                         IN Returned([chunks |-> compressed,
                                      totalTokens |-> SumTokens(compressed),
                                      error |-> NullText])

\* fault variant of RetrieveCatch: the error is thrown on to the caller
RetrieveCatch_Rethrows(outcome) == outcome

\* the catch block: a thrown error becomes an error result
RetrieveCatch(outcome) ==
    IF outcome.threw THEN Returned(ErrorResult(outcome.value)) ELSE outcome

\* retrieveContext on the index loadIndex returned
retrieveContextOn(index, query, env) ==
    RetrieveCatch(RetrieveTry(index, query, env))

\* what loadIndex can return: null, or an index of up to MaxChunks chunks
LoadedIndexes ==
    {NullIndex}
    \cup {[NullIndex EXCEPT !.ok = TRUE, !.checksum = computeChecksum(1),
                            !.indexedAt = 1, !.totalChunks = n,
                            !.chunks = IndexChunks([j \in 1..n |->
                                                      <<FALSE, v[j]>>])] :
            n \in 0..MaxChunks, v \in [1..MaxChunks -> Vectors]}

\* the context budget: the default, or a small MAX_CONTEXT_TOKENS
ContextBudgets == {2 * BudgetUnit, MAX_CONTEXT_TOKENS}

InitRetrieve ==
    /\ InitIndex /\ InitReader /\ InitThreads /\ InitChat
    /\ \E index \in LoadedIndexes, expand \in ExpandOutcomes,
          embed \in EmbedOutcomes, maxTokens \in ContextBudgets :
         args = [fn |-> "retrieveContext", index |-> index,
                 query |-> TextLen(UserMessage),
                 env |-> [expand |-> expand, embed |-> embed,
                          maxTokens |-> maxTokens]]
    /\ result = NoResult

RetrieveContextCall ==
    /\ args.fn = "retrieveContext"
    /\ ~result.returned
    /\ result' = retrieveContextOn(args.index, args.query, args.env)
    /\ UNCHANGED args
    /\ UNCHANGED <<indexVars, readerVars, threadVars, chatVars>>

NextRetrieve == RetrieveContextCall

SpecRetrieve == InitRetrieve /\ [][NextRetrieve]_vars

(***************************************************************************)
(* buildPrompt (streaming.ts).  A text is its length in characters.        *)
(***************************************************************************)
MAX_PROMPT_TOKENS == 2800

\* estimateTokens: Math.ceil(text.length / 4)
estimateTokens(len) == (len + 3) \div 4

\* the length of the decimal numeral of a page number
Digits(n) == IF n < 10 THEN 1 ELSE IF n < 100 THEN 2 ELSE 3

\* baseSystemPrompt + contextInfo: the default instructions (146 characters)
\* replace an empty systemPrompt; "\n\nDocument: " and the file name follow
FullSystemPromptLen(systemPrompt, fileName) ==
    (IF systemPrompt = 0 THEN 146 ELSE systemPrompt) + 12 + fileName

\* the thread summary as it goes into the prompt, and the tokens used
\* after it
FitSummary(threadSummary, tokensUsed) ==
    IF threadSummary = 0
    THEN [threadSummary |-> 0, tokensUsed |-> tokensUsed]
    ELSE IF tokensUsed + estimateTokens(threadSummary)
              < MAX_PROMPT_TOKENS - 500
    THEN [threadSummary |-> threadSummary,
          tokensUsed |-> tokensUsed + estimateTokens(threadSummary)]
    ELSE LET allowedChars == (MAX_PROMPT_TOKENS - tokensUsed - 500) * 4
             truncated == SubstringLen(threadSummary, allowedChars) + 3
         IN [threadSummary |-> truncated,
             tokensUsed |-> tokensUsed + estimateTokens(truncated)]

\* chunkHeader + chunk.content + "\n\n"
ChunkTextLen(chunk) ==
    (11 + Digits(chunk.page_start) + Digits(chunk.page_end)) + chunk.len + 2

PromptCitation(chunk) ==
    [page_start |-> chunk.page_start, page_end |-> chunk.page_end,
     chunk_no |-> chunk.chunk_no]

RECURSIVE PromptChunkLoop_SkipsOversized(_, _)
\* fault variant of PromptChunkLoop: an oversized chunk is skipped and the
\* loop goes on
PromptChunkLoop_SkipsOversized(chunks, acc) ==
    IF chunks = <<>> THEN acc
    ELSE LET chunk == Head(chunks)
             chunkTokens == estimateTokens(ChunkTextLen(chunk))
         IN IF acc.tokensUsed + chunkTokens > MAX_PROMPT_TOKENS - 200
            THEN PromptChunkLoop_SkipsOversized(Tail(chunks), acc)
            ELSE PromptChunkLoop_SkipsOversized(Tail(chunks),
                     [context |-> Append(acc.context, chunk),
                      contextText |-> acc.contextText + ChunkTextLen(chunk),
                      tokensUsed |-> acc.tokensUsed + chunkTokens,
                      citations |-> Append(acc.citations,
                                           PromptCitation(chunk))])

RECURSIVE PromptChunkLoop(_, _)
\* the loop over retrievedChunks: acc holds contextText, the chunks whose
\* text it contains, tokensUsed and citations
PromptChunkLoop(chunks, acc) ==
    IF chunks = <<>> THEN acc
    ELSE LET chunk == Head(chunks)
             chunkTokens == estimateTokens(ChunkTextLen(chunk))
         IN IF acc.tokensUsed + chunkTokens > MAX_PROMPT_TOKENS - 200
            THEN acc
            ELSE PromptChunkLoop(Tail(chunks),
                     [context |-> Append(acc.context, chunk),
                      contextText |-> acc.contextText + ChunkTextLen(chunk),
                      tokensUsed |-> acc.tokensUsed + chunkTokens,
                      citations |-> Append(acc.citations,
                                           PromptCitation(chunk))])

PromptMessage(role, content) == [role |-> role, content |-> content]

\* buildPrompt: the messages (contents as lengths), the citations, the
\* chunks whose text is in the context message and the tokensUsed it logs
buildPrompt(systemPrompt, fileName, threadSummary, userMessage, chunks) ==
    LET fullSystemPrompt == FullSystemPromptLen(systemPrompt, fileName)
        summary == FitSummary(threadSummary,
                              estimateTokens(fullSystemPrompt)
                              + estimateTokens(userMessage))
        loop == PromptChunkLoop(chunks,
                    [context |-> <<>>, contextText |-> 38,
                     tokensUsed |-> summary.tokensUsed, citations |-> <<>>])
        contextText == IF Len(loop.citations) = 0 THEN 46
                       ELSE loop.contextText
    IN [messages |->
            <<PromptMessage("system", fullSystemPrompt),
              PromptMessage("system", contextText)>>
            \o (IF summary.threadSummary > 0
                THEN <<PromptMessage("system", 23 + summary.threadSummary)>>
                ELSE <<>>)
            \o <<PromptMessage("user", userMessage)>>,
        citations |-> loop.citations,
        context |-> IF Len(loop.citations) = 0 THEN <<>> ELSE loop.context,
        tokensUsed |-> loop.tokensUsed]

RECURSIVE PromptTokens(_)
\* the summed token estimate of the messages of a prompt
PromptTokens(messages) ==
    IF messages = <<>> THEN 0
    ELSE estimateTokens(Head(messages).content) + PromptTokens(Tail(messages))

\* lengths drawn as inputs
LongTextLens == {TextUnit * j : j \in 1..MaxTextUnits}
SystemPromptLens == {0, 200}
\* 9024 and 9028 characters: with the default instructions and the short
\* question the summary is one token below and exactly at the budget
ThreadSummaryLens == {0, 400, 9024, 9028} \cup LongTextLens
UserMessageLens == {TextLen(UserMessage)} \cup LongTextLens
\* a short chunk and a chunk of CHUNK_SIZE (800) tokens
ChunkContentLens == {400, 3200}

PromptChunkLists ==
    UNION {[1..n -> ChunkContentLens] : n \in 0..MaxChunks}

\* the ranked chunks: chunk_no and pages by rank here
PromptChunks(lens) ==
    [j \in 1..Len(lens) |->
        [chunk_no |-> j - 1, page_start |-> j, page_end |-> j + 9,
         len |-> lens[j]]]

InitPrompt ==
    /\ InitIndex /\ InitReader /\ InitThreads /\ InitChat
    /\ \E systemPrompt \in SystemPromptLens,
          threadSummary \in ThreadSummaryLens,
          userMessage \in UserMessageLens, lens \in PromptChunkLists :
         args = [fn |-> "buildPrompt", systemPrompt |-> systemPrompt,
                 fileName |-> 10, threadSummary |-> threadSummary,
                 userMessage |-> userMessage,
                 chunks |-> PromptChunks(lens)]
    /\ result = NoResult

BuildPromptCall ==
    /\ args.fn = "buildPrompt"
    /\ ~result.returned
    /\ result' = Returned(buildPrompt(args.systemPrompt, args.fileName,
                                      args.threadSummary, args.userMessage,
                                      args.chunks))
    /\ UNCHANGED args
    /\ UNCHANGED <<indexVars, readerVars, threadVars, chatVars>>

NextPrompt == BuildPromptCall

SpecPrompt == InitPrompt /\ [][NextPrompt]_vars

(***************************************************************************)
(* getThreadMessages and getThreadSummary (db.ts).  The rows of a thread   *)
(* are given in creation order with distinct createdAt values.             *)
(***************************************************************************)
\* the limit getThreadSummary passes, its token threshold and the number of
\* messages it keeps verbatim
SummaryLimit == 100
SummaryThreshold == 2500
RecentCount == 10

\* tokenCount of the stored messages drawn as inputs
MessageTokenChoices == {1, 30, 300}

\* the rows of a thread of n messages
ThreadRows(n, tokenCount) ==
    [j \in 1..n |->
        [id |-> j, threadId |-> ThreadId,
         role |-> IF j % 2 = 1 THEN "user" ELSE "assistant",
         content |-> 4 * tokenCount, tokenCount |-> tokenCount,
         createdAt |-> j]]

\* select ... where threadId = ? order by createdAt limit ?: the rows come
\* in ascending createdAt and the first limit of them are returned
getThreadMessages(rows, threadId, limit) ==
    LET ofThread == SelectSeq(rows, LAMBDA r : r.threadId = threadId) IN
    SubSeq(ofThread, 1, IF Len(ofThread) < limit THEN Len(ofThread)
                        ELSE limit)

RECURSIVE SumTokenCounts(_)
\* messages.reduce((sum, msg) => sum + (msg.tokenCount || 0), 0)
SumTokenCounts(messages) ==
    IF messages = <<>> THEN 0
    ELSE Head(messages).tokenCount + SumTokenCounts(Tail(messages))

\* messages.slice(0, -count)
SliceOld(messages, count) ==
    SubSeq(messages, 1, Len(messages) - count)

\* fault variant of SliceRecent: every message is kept
SliceRecent_KeepsAll(messages, count) == messages

\* messages.slice(-count)
SliceRecent(messages, count) ==
    SubSeq(messages, IF Len(messages) > count THEN Len(messages) - count + 1
                     ELSE 1, Len(messages))

\* the no-key fallback keeps the first 5 messages and 100 characters of
\* each; the catch fallback keeps 1000 characters of the transcript
FallbackCount == 5
FallbackChars == 100
TranscriptLimit == 1000

\* what the chat provider does with the summary request; an answer is its
\* length in characters (message.content || "")
SummaryOutcomes ==
    {[kind |-> "noKey", len |-> 0], [kind |-> "failed", len |-> 0]}
    \cup {[kind |-> "answered", len |-> len] : len \in {0, 1200}}

\* String.length of a role
RoleLen(role) == IF role = "user" THEN 4 ELSE 9

\* String.length of `${m.role}: ${m.content}`
LineLen(msg) == RoleLen(msg.role) + 2 + msg.content

\* a piece of a summary: the first chars characters of the line of message
\* id (0: text of the provider), followed by "..." when marker
Segment(id, chars, marker) == [id |-> id, chars |-> chars, marker |-> marker]

\* messages.slice(0, 5).map(m => `${m.role}: ${m.content.substring(0, 100)}...`)
TruncatedLines(messages) ==
    [j \in 1..(IF Len(messages) < FallbackCount THEN Len(messages)
               ELSE FallbackCount) |->
        Segment(messages[j].id,
                RoleLen(messages[j].role) + 2
                  + SubstringLen(messages[j].content, FallbackChars),
                TRUE)]

RECURSIVE CutLines(_, _, _)
\* the lines of messages joined by "\n", cut by substring(0, limit)
CutLines(messages, first, limit) ==
    IF messages = <<>> \/ limit = 0 THEN <<>>
    ELSE LET rest == IF first THEN limit ELSE limit - 1
             take == SubstringLen(LineLen(Head(messages)), rest)
         IN  <<Segment(Head(messages).id, take, FALSE)>>
             \o (IF take < LineLen(Head(messages)) THEN <<>>
                 ELSE CutLines(Tail(messages), FALSE, rest - take))

\* conversationText.substring(0, 1000) + "..."
CutTranscript(messages) ==
    LET cut == CutLines(messages, TRUE, TranscriptLimit) IN
    [j \in 1..Len(cut) |->
        IF j = Len(cut) THEN [cut[j] EXCEPT !.marker = TRUE] ELSE cut[j]]

\* fault variant of summarizeThread: the no-key fallback keeps every message
summarizeThread_KeepsAll(messages, outcome) ==
    IF messages = <<>> THEN <<>>
    ELSE IF outcome.kind = "noKey"
    THEN [j \in 1..Len(messages) |->
            Segment(messages[j].id,
                    RoleLen(messages[j].role) + 2
                      + SubstringLen(messages[j].content, FallbackChars),
                    TRUE)]
    ELSE IF outcome.kind = "failed" THEN CutTranscript(messages)
    ELSE IF outcome.len = 0 THEN <<>>
    ELSE <<Segment(0, outcome.len, FALSE)>>

\* summarizeThread: "" for no messages, the truncated first lines without
\* key, the provider's text, and the cut transcript when the request throws
summarizeThread(messages, outcome) ==
    IF messages = <<>> THEN <<>>
    ELSE IF outcome.kind = "noKey" THEN TruncatedLines(messages)
    ELSE IF outcome.kind = "failed" THEN CutTranscript(messages)
    ELSE IF outcome.len = 0 THEN <<>>
    ELSE <<Segment(0, outcome.len, FALSE)>>

\* getThreadSummary: the messages it loaded, the ones it hands to
\* summarizeThread, the summary returned for them and the messages it
\* returns verbatim after the summary
getThreadSummary(rows, threadId, outcome) ==
    LET messages == getThreadMessages(rows, threadId, SummaryLimit) IN
    IF messages = <<>>
    THEN [mode |-> "empty", loaded |-> <<>>, old |-> <<>>,
          summary |-> <<>>, verbatim |-> <<>>]
    ELSE IF SumTokenCounts(messages) < SummaryThreshold
    THEN [mode |-> "verbatim", loaded |-> messages, old |-> <<>>,
          summary |-> <<>>, verbatim |-> messages]
    ELSE [mode |-> "summarized", loaded |-> messages,
          old |-> SliceOld(messages, RecentCount),
          summary |-> summarizeThread(SliceOld(messages, RecentCount),
                                      outcome),
          verbatim |-> SliceRecent(messages, RecentCount)]

InitSummary ==
    /\ InitIndex /\ InitReader /\ InitThreads /\ InitChat
    /\ \E n \in 0..MaxThreadLen, tokenCount \in MessageTokenChoices :
       \E outcome \in SummaryOutcomes :
         args = [fn |-> "getThreadSummary", outcome |-> outcome,
                 rows |-> ThreadRows(n, tokenCount)]
    /\ result = NoResult

GetThreadSummaryCall ==
    /\ args.fn = "getThreadSummary"
    /\ ~result.returned
    /\ result' = Returned(getThreadSummary(args.rows, ThreadId, args.outcome))
    /\ UNCHANGED args
    /\ UNCHANGED <<indexVars, readerVars, threadVars, chatVars>>

NextSummary == GetThreadSummaryCall

SpecSummary == InitSummary /\ [][NextSummary]_vars

InitExpand ==
    /\ InitIndex /\ InitReader /\ InitThreads /\ InitChat
    /\ \E query \in QueryLens, outcome \in ExpandAnswers :
         args = [fn |-> "expandQuery", query |-> query, outcome |-> outcome]
    /\ result = NoResult

ExpandQueryCall ==
    /\ args.fn = "expandQuery"
    /\ ~result.returned
    /\ result' = Returned(expandQuery(args.query, args.outcome))
    /\ UNCHANGED args
    /\ UNCHANGED <<indexVars, readerVars, threadVars, chatVars>>

NextExpand == ExpandQueryCall

SpecExpand == InitExpand /\ [][NextExpand]_vars

(***************************************************************************)
(* chunkText (indexing.ts).  A word is its position in the document and    *)
(* its length in characters.  A string built by the loop is a sequence of  *)
(* words each followed by one space, with at most one leading space and    *)
(* one doubled space; seeded counts its first words that were taken from   *)
(* the previous chunk.                                                     *)
(***************************************************************************)
\* lengths of the words drawn as inputs: with their space 1 and 2 tokens
WordLens == {3, 7}

\* the words of one page after split(/\s+/).filter(w => w.length > 0)
PageTextChoices == UNION {[1..n -> WordLens] : n \in 0..MaxPageWords}

\* the map extractPdfText returns: pages 1..numPages
PageTextsChoices == UNION {[1..p -> PageTextChoices] : p \in 0..MaxPages}

RECURSIVE WordsBefore(_, _)
\* number of words on the pages before pageNum
WordsBefore(pageTexts, pageNum) ==
    IF pageNum <= 1 THEN 0
    ELSE Len(pageTexts[pageNum - 1]) + WordsBefore(pageTexts, pageNum - 1)

\* const words = pageText.split(/\s+/).filter(w => w.length > 0)
WordsOfPage(pageTexts, pageNum) ==
    [k \in 1..Len(pageTexts[pageNum]) |->
        [id |-> WordsBefore(pageTexts, pageNum) + k,
         len |-> pageTexts[pageNum][k]]]

\* the empty string as an element of a split array
EmptyWord == [id |-> 0, len |-> 0]

\* let currentChunk = ""
EmptyString == [lead |-> 0, words |-> <<>>, extra |-> 0, seeded |-> 0]

RECURSIVE SumWordLens(_)
SumWordLens(words) ==
    IF words = <<>> THEN 0 ELSE Head(words).len + SumWordLens(Tail(words))

\* String.length of a string of the loop
StringLen(str) ==
    str.lead + SumWordLens(str.words) + Len(str.words) + str.extra

\* String.length of str.trim()
TrimLen(str) ==
    IF str.words = <<>> THEN 0
    ELSE SumWordLens(str.words) + Len(str.words) - 1 + str.extra

\* str.split(/\s+/): an empty element for a leading space and one for the
\* trailing space
SplitWords(str) ==
    (IF str.lead = 1 THEN <<EmptyWord>> ELSE <<>>)
    \o str.words
    \o <<EmptyWord>>

\* array.slice(-count): slice(-0) is slice(0), the whole array
SliceLast(array, count) ==
    IF count = 0 \/ count >= Len(array) THEN array
    ELSE SubSeq(array, Len(array) - count + 1, Len(array))

\* overlapWords.join(" ") + " " + word + " "
SeededString(overlapWords, word) ==
    LET seeds == SelectSeq(overlapWords, LAMBDA w : w.id # 0) IN
    [lead |-> IF Head(overlapWords).id = 0 THEN 1 ELSE 0,
     words |-> seeds \o <<word>>,
     extra |-> IF Len(overlapWords) >= 2 THEN 1 ELSE 0,
     seeded |-> Len(seeds)]

\* let chunkNo = 0 ... let currentPage = 1 (lines 397-402)
InitialLoop ==
    [chunks |-> <<>>, chunkNo |-> 0, currentChunk |-> EmptyString,
     currentTokens |-> 0, chunkStartPage |-> 1, currentPage |-> 1]

\* fault variant of PushChunk: the numbering starts at one
PushChunk_OneBased(st) ==
    [chunk_no |-> st.chunkNo + 1, page_start |-> st.chunkStartPage,
     page_end |-> st.currentPage, content |-> st.currentChunk.words,
     length |-> TrimLen(st.currentChunk), tokens |-> st.currentTokens,
     seeded |-> st.currentChunk.seeded]

\* the object pushed to chunks; content is the words of currentChunk.trim()
PushChunk(st) ==
    [chunk_no |-> st.chunkNo, page_start |-> st.chunkStartPage,
     page_end |-> st.currentPage, content |-> st.currentChunk.words,
     length |-> TrimLen(st.currentChunk), tokens |-> st.currentTokens,
     seeded |-> st.currentChunk.seeded]

\* the body of the loop over the words of a page (lines 411-432)
WordStep(st, word, chunkSize, overlap) ==
    LET wordTokens == estimateTokens(word.len + 1) IN
    IF st.currentTokens + wordTokens > chunkSize
       /\ StringLen(st.currentChunk) > 0
    THEN LET overlapWords == SliceLast(SplitWords(st.currentChunk), overlap)
             seededChunk == SeededString(overlapWords, word)
         IN  [st EXCEPT !.chunks = Append(@, PushChunk(st)),
                        !.chunkNo = @ + 1,
                        !.currentChunk = seededChunk,
                        !.currentTokens =
                            estimateTokens(StringLen(seededChunk)),
                        !.chunkStartPage = st.currentPage]
    ELSE [st EXCEPT !.currentChunk.words = Append(@, word),
                    !.currentTokens = @ + wordTokens]

RECURSIVE WordLoop(_, _, _, _)
\* for (const word of words)
WordLoop(st, words, chunkSize, overlap) ==
    IF words = <<>> THEN st
    ELSE WordLoop(WordStep(st, Head(words), chunkSize, overlap),
                  Tail(words), chunkSize, overlap)

RECURSIVE PageLoop(_, _, _, _, _)
\* for (const [pageNum, pageText] of pages), pages in ascending order
PageLoop(st, pageTexts, pageNum, chunkSize, overlap) ==
    IF pageNum > Len(pageTexts) THEN st
    ELSE PageLoop(WordLoop([st EXCEPT !.currentPage = pageNum],
                           WordsOfPage(pageTexts, pageNum),
                           chunkSize, overlap),
                  pageTexts, pageNum + 1, chunkSize, overlap)

\* fault variant of chunkText: the final buffer is not saved
chunkText_NoFlush(pageTexts, chunkSize, overlap) ==
    PageLoop(InitialLoop, pageTexts, 1, chunkSize, overlap).chunks

\* chunkText: the chunks of the loop and the final buffer when it holds text
chunkText(pageTexts, chunkSize, overlap) ==
    LET st == PageLoop(InitialLoop, pageTexts, 1, chunkSize, overlap) IN
    IF TrimLen(st.currentChunk) > 0
    THEN Append(st.chunks, PushChunk(st))
    ELSE st.chunks

InitChunk ==
    /\ InitIndex /\ InitReader /\ InitThreads /\ InitChat
    /\ \E pageTexts \in PageTextsChoices :
       \E chunkSize \in 1..MaxChunkSize, overlap \in 0..MaxOverlap :
         args = [fn |-> "chunkText", pageTexts |-> pageTexts,
                 chunkSize |-> chunkSize, overlap |-> overlap]
    /\ result = NoResult

ChunkTextCall ==
    /\ args.fn = "chunkText"
    /\ ~result.returned
    /\ result' = Returned(chunkText(args.pageTexts, args.chunkSize,
                                    args.overlap))
    /\ UNCHANGED args
    /\ UNCHANGED <<indexVars, readerVars, threadVars, chatVars>>

NextChunk == ChunkTextCall

SpecChunk == InitChunk /\ [][NextChunk]_vars

(***************************************************************************)
(* Helpers of the claims about the status row.                             *)
(***************************************************************************)
\* call i has started a build and no later call has written the row
LatestBuild(i) ==
    /\ calls[i].pc \in {"checksum", "extract", "embed", "saveOpen",
                        "saveWrite", "final", "done"}
    /\ \A j \in Calls : j > i =>
          calls[j].pc \in {"idle", "setIndexing", "setIndexingWrite",
                           "returned", "threw"}

\* the step is the final status write of call i
IsFinalWrite(i) == calls[i].pc = "final" /\ calls'[i].pc = "done"

\* the step is the decision of triggerIndex call i
IsTriggerDecision(i) == calls[i].pc = "idle" /\ calls'[i].pc # "idle"

(***************************************************************************)
(* C1.  Under single flight every change of the status row follows an edge *)
(* of the state machine: PENDING -> INDEXING, INDEXING -> INDEXING,        *)
(* INDEXING -> READY, INDEXING -> ERROR, and ERROR (or READY with a        *)
(* changed checksum) -> INDEXING by a fresh triggerIndex call only.        *)
(***************************************************************************)
C1_EdgeAllowed ==
    LET s == pdfIndexes.status
        t == pdfIndexes'.status
    IN  \/ s = "PENDING" /\ t = "INDEXING"
        \/ s = "INDEXING" /\ t \in {"INDEXING", "READY", "ERROR"}
        \/ /\ s \in {"READY", "ERROR"}
           /\ t = "INDEXING"
           /\ lastWrite'.kind = "trigger"
           /\ s = "READY" => pdfIndexes.checksum # computeChecksum(pdfFile)

C1_StatusFollowsStateMachine ==
    [][pdfIndexes' # pdfIndexes => C1_EdgeAllowed]_vars

(***************************************************************************)
(* C2.  Once the background build of the latest triggerIndex call has run  *)
(* to completion the row shows READY if indexPdf succeeded and ERROR with  *)
(* a message if it failed, and keeps showing it until the next call.       *)
(***************************************************************************)
C2_TerminalStatusKept ==
    \A i \in Calls :
        (calls[i].pc = "done" /\ LatestBuild(i)) =>
            /\ getStatus.status = (IF calls[i].ok THEN "READY" ELSE "ERROR")
            /\ ~calls[i].ok => pdfIndexes.errorMessage # NullText

(***************************************************************************)
(* C3.  A build that fails while a READY index existed records ERROR with  *)
(* a message, leaves the persisted artifact as it was when the call was    *)
(* made, and the document's chat requests are still served from it.        *)
(***************************************************************************)
C3_FailedBuildKeepsPreviousIndex ==
    [][\A i \in Calls :
          (/\ IsFinalWrite(i)
           /\ ~calls[i].ok
           /\ calls[i].hadReady
           /\ Len(loadIndexQuiet(calls[i].before).chunks) > 0) =>
              /\ pdfIndexes'.status = "ERROR"
              /\ pdfIndexes'.errorMessage # NullText
              /\ indexFile' = calls[i].before
              /\ loadIndexQuiet(indexFile').ok
              /\ IndexReadyForChat(pdfIndexes')]_vars

(***************************************************************************)
(* C5.  triggerIndex on a READY row whose checksum is the checksum of the  *)
(* current file returns "File already indexed", changes neither the row    *)
(* nor the artifact, starts no build and makes no embedding request.       *)
(***************************************************************************)
C5_UnchangedFileShortCircuits ==
    [][\A i \in Calls :
          (/\ IsTriggerDecision(i)
           /\ pdfIndexes.present
           /\ pdfIndexes.status = "READY"
           /\ pdfIndexes.checksum = computeChecksum(pdfFile)) =>
              /\ calls'[i].pc = "returned"
              /\ calls'[i].ret = "File already indexed"
              /\ pdfIndexes' = pdfIndexes
              /\ indexFile' = indexFile
              /\ embedCalls' = embedCalls
              /\ progressWrites' = progressWrites
              /\ \A j \in Calls : Running(j)' = Running(j)]_vars

\* a call was answered "File already indexed" and the row is still READY
\* for the file's content
C5_Witness ==
    \E i \in Calls :
        /\ calls[i].pc = "returned"
        /\ calls[i].ret = "File already indexed"
        /\ pdfIndexes.status = "READY"
        /\ pdfIndexes.checksum = computeChecksum(pdfFile)
        /\ loadIndexQuiet(indexFile).ok

(***************************************************************************)
(* C4.  A loadIndex call running next to saveIndex returns the complete    *)
(* previous artifact, the complete new artifact or nothing; never an index *)
(* that no saveIndex wrote.                                                *)
(***************************************************************************)
C4_LoadSeesWholeArtifact ==
    (readers.pc = "done" /\ readers.result.ok) =>
        \E d \in readers.seen : readers.result = ParseIndex(d)

(***************************************************************************)
(* C6.  When triggerIndex calls overlapped and all their builds have       *)
(* finished, the row holds the terminal status written last, and a READY   *)
(* row carries the checksum and chunk count of the artifact on disk.       *)
(* Stated for the runs in which every build succeeded and the last write   *)
(* of the row is a build's final write.                                    *)
(***************************************************************************)
C6_OverlappingBuildsAgree ==
    (/\ \A i \in Calls : calls[i].pc = "done" /\ calls[i].ok
     /\ lastWrite.kind = "final") =>
        /\ pdfIndexes.status \in {"READY", "ERROR"}
        /\ pdfIndexes.status =
              (IF calls[lastWrite.call].ok THEN "READY" ELSE "ERROR")
        /\ pdfIndexes.status = "READY" =>
              /\ loadIndexQuiet(indexFile).ok
              /\ loadIndexQuiet(indexFile).checksum = pdfIndexes.checksum
              /\ Len(loadIndexQuiet(indexFile).chunks) = pdfIndexes.chunkCount

(***************************************************************************)
(* C7.  After any interleaving of getOrCreateThread calls the document has *)
(* at most one thread, and every call returned the id of that thread.      *)
(***************************************************************************)
ThreadsOf(f) == {j \in 1..Len(pdfThreads) : pdfThreads[j].fileId = f}

C7_OneThreadPerDocument ==
    /\ Cardinality(ThreadsOf(FileId)) <= 1
    /\ \A c \in Callers :
          threadCalls[c].pc = "returned" =>
              \A j \in ThreadsOf(FileId) :
                  threadCalls[c].ret = pdfThreads[j].threadId

(***************************************************************************)
(* C8.  A validated response carries at most one terminal event (done or   *)
(* error), nothing follows it, an ended response carries exactly one, and  *)
(* token events come after the first timing event and before done.         *)
(***************************************************************************)
Terminals == {j \in 1..Len(events) : events[j].type \in {"done", "error"}}

C8_OneTerminalEvent ==
    /\ Cardinality(Terminals) <= 1
    /\ Terminals \subseteq {Len(events)}
    /\ turn.pc = "ended" => Cardinality(Terminals) = 1
    /\ turn.pc \notin {"ended", "rejected"} => Terminals = {}
    /\ \A j \in 1..Len(events) :
          events[j].type = "token" =>
              \E k \in 1..(j - 1) : events[k].type = "timing"

\* a response that streamed tokens and ended with done
C8_Witness ==
    /\ turn.pc = "ended"
    /\ Len(events) >= 3
    /\ events[Len(events)].type = "done"
    /\ \E j \in 1..Len(events) : events[j].type = "token"

(***************************************************************************)
(* C9.  A turn whose provider stream failed after token events were sent   *)
(* ends with an error event, stores no assistant message, and leaves the   *)
(* messages stored before it as they were (the turn's own user message is  *)
(* the only addition), so the next turn can be requested.                  *)
(***************************************************************************)
TokensSent == {j \in 1..Len(events) : events[j].type = "token"}

C10_DisconnectStopsStream ==
    client.midStream =>
        /\ provider.pulled = client.pulledAtClose
        /\ \A j \in (Len(turn.before) + 1)..Len(pdfMessages) :
              pdfMessages[j].role # "assistant"

(***************************************************************************)
(* C11: a chat turn requested while the document's index status is not     *)
(* READY (no row, INDEXING or ERROR) is answered with the single error     *)
(* event "PDF not indexed yet" and ends: no message is stored, retrieval   *)
(* is not called and the generation provider is not called.                *)
(***************************************************************************)
C11_NotIndexedTurnEndsWithError ==
    (getStatus.status # "READY"
     /\ turn.pc \notin {"idle", "rejected", "checkIndex"}) =>
        /\ turn.pc = "ended"
        /\ events = <<Event("error", "PDF not indexed yet")>>
        /\ pdfMessages = turn.before
        /\ ~turn.retrieved
        /\ provider = IdleProvider

\* a second turn met an index that is still being built and was refused
C11_Witness ==
    /\ turn.n = 2
    /\ turn.outcome = "notIndexed"
    /\ pdfIndexes.present
    /\ pdfIndexes.status = "INDEXING"
    /\ Len(events) = 1

(***************************************************************************)
(* C12: stored messages are append-only.  Every step of a chat turn and    *)
(* of the memory build leaves each stored message unchanged at its         *)
(* position in creation order; a step can only add rows after them.        *)
(***************************************************************************)
C12_MessagesAppendOnly ==
    [][/\ Len(pdfMessages') >= Len(pdfMessages)
       /\ SubSeq(pdfMessages', 1, Len(pdfMessages)) = pdfMessages]_vars

\* a second turn has stored its assistant message after the first turn's
\* two messages
C12_Witness ==
    /\ turn.n = 2
    /\ Len(pdfMessages) = 4
    /\ pdfMessages[4].role = "assistant"
    /\ SubSeq(pdfMessages, 1, 2) = turn.before

(***************************************************************************)
(* C14: when retrieval returns an error result the orchestrator proceeds   *)
(* through the turn: the prompt is built (with the "no relevant sections"  *)
(* notice), the first timing event is sent and the turn ends with done,    *)
(* not with an error event.                                                *)
(***************************************************************************)
C14_TurnProceedsOnRetrievalError ==
    (turn.retrievalError # NullText /\ turn.pc = "ended") =>
        /\ turn.outcome = "done"
        /\ \E j \in 1..Len(events) : events[j].type = "timing"
        /\ \A j \in 1..Len(events) : events[j].type # "error"

(***************************************************************************)
(* C17: for every ranked chunk list and every token budget maxTokens, the  *)
(* sum of the tokens fields of the chunks compressContext returns is at    *)
(* most maxTokens.                                                         *)
(***************************************************************************)
C17_CompressedWithinBudget ==
    (args.fn = "compressContext" /\ result.returned) =>
        SumTokens(result.value) <= args.maxTokens

\* the call met a chunk that did not fit, with more than 50 tokens left, and
\* returned it truncated after a chunk kept whole
C17_Witness ==
    /\ args.fn = "compressContext"
    /\ result.returned
    /\ Len(result.value) = 2
    /\ Len(args.chunks) = 3
    /\ result.value[1] = args.chunks[1]
    /\ result.value[2].tokens < args.chunks[2].tokens
    /\ result.value[2].tokens > 50

(***************************************************************************)
(* C18: for chunks that all carry embeddings and any k >= 0, mmrSearch     *)
(* returns exactly min(k, n) chunks and no chunk of the index twice.       *)
(***************************************************************************)
C18_MmrReturnsDistinctChunks ==
    (args.fn = "mmrSearch" /\ result.returned) =>
        LET n == Len(args.chunks) IN
        /\ ~result.threw
        /\ Len(result.value) = (IF args.k < n THEN args.k ELSE n)
        /\ \A i, j \in 1..Len(result.value) :
              i # j => result.value[i].chunk_no # result.value[j].chunk_no

\* three chunks, k = 2: another chunk has the embedding of the first pick,
\* and the second pick, made by the MMR score, has a different embedding
C18_Witness ==
    /\ args.fn = "mmrSearch"
    /\ result.returned
    /\ Len(args.chunks) = 3
    /\ args.k = 2
    /\ Len(result.value) = 2
    /\ result.value[1].embedding # result.value[2].embedding
    /\ \E j \in 1..3 :
          /\ args.chunks[j].embedding = result.value[1].embedding
          /\ args.chunks[j].chunk_no # result.value[1].chunk_no

(***************************************************************************)
(* C19: every chunk mmrSearch returns has a similarity within [0, 1]       *)
(* (0..1000 thousandths) after boosting and capping.                       *)
(***************************************************************************)
C19_SimilarityInUnitInterval ==
    (args.fn = "mmrSearch" /\ result.returned /\ ~result.threw) =>
        \A j \in 1..Len(result.value) :
            /\ result.value[j].similarity >= 0
            /\ result.value[j].similarity <= 1000

(***************************************************************************)
(* C13: retrieveContext never throws.  Without an index artifact, or with  *)
(* an artifact of zero chunks, it returns exactly {chunks: [],             *)
(* totalTokens: 0, error: "No index found or index is empty"}; a failure   *)
(* of embedding or ranking is returned as {chunks: [], totalTokens: 0,     *)
(* error: message}; on success totalTokens is the sum of the returned      *)
(* chunks' token estimates.                                                *)
(***************************************************************************)
C13_RetrieveContextNeverThrows ==
    (args.fn = "retrieveContext" /\ result.returned) =>
        /\ ~result.threw
        /\ (~args.index.ok \/ Len(args.index.chunks) = 0) =>
              result.value = [chunks |-> <<>>, totalTokens |-> 0,
                              error |-> "No index found or index is empty"]
        /\ result.value.error # NullText =>
              result.value.chunks = <<>> /\ result.value.totalTokens = 0
        /\ (args.index.ok /\ Len(args.index.chunks) > 0
            /\ (args.env.embed.kind = "failed"
                \/ Len(args.env.embed.vectors[1])
                     # Len(args.index.chunks[1].embedding))) =>
              result.value.error \notin
                  {NullText, "No index found or index is empty"}
        /\ result.value.error = NullText =>
              result.value.totalTokens = SumTokens(result.value.chunks)

\* the embedding provider failed on an index of three chunks and the call
\* returned the error result
C13_Witness ==
    /\ args.fn = "retrieveContext"
    /\ result.returned
    /\ Len(args.index.chunks) = 3
    /\ args.env.embed.kind = "failed"
    /\ result.value = [chunks |-> <<>>, totalTokens |-> 0,
                       error |-> "OpenAI API key not configured"]

(***************************************************************************)
(* C15: for every system prompt, document label, memory string, user       *)
(* message and ranked chunk list, the summed token estimate                *)
(* (ceil(characters / 4)) of the messages buildPrompt returns is at most   *)
(* 2800.                                                                   *)
(***************************************************************************)
C15_PromptWithinCeiling ==
    (args.fn = "buildPrompt" /\ result.returned) =>
        PromptTokens(result.value.messages) <= MAX_PROMPT_TOKENS

(***************************************************************************)
(* C16: the citations of buildPrompt are one per chunk whose text is in    *)
(* the context message, in the same order; the included chunks are a       *)
(* prefix of the ranked input, and inclusion stops at the first chunk that *)
(* would exceed the ceiling minus 200: no later chunk is included.         *)
(***************************************************************************)
C16_CitationsMirrorIncludedPrefix ==
    (args.fn = "buildPrompt" /\ result.returned) =>
        LET n == Len(result.value.context) IN
        /\ n <= Len(args.chunks)
        /\ result.value.context = SubSeq(args.chunks, 1, n)
        /\ result.value.citations =
              [j \in 1..n |-> PromptCitation(result.value.context[j])]
        /\ n < Len(args.chunks) =>
              result.value.tokensUsed
              + estimateTokens(ChunkTextLen(args.chunks[n + 1]))
                > MAX_PROMPT_TOKENS - 200

\* the second of three chunks did not fit; the third, a short one, would
\* have fitted and is left out
C16_Witness ==
    /\ args.fn = "buildPrompt"
    /\ result.returned
    /\ Len(args.chunks) = 3
    /\ Len(result.value.citations) = 1
    /\ result.value.tokensUsed
       + estimateTokens(ChunkTextLen(args.chunks[3])) <= MAX_PROMPT_TOKENS - 200

(***************************************************************************)
(* C20: getThreadSummary builds the memory from the last (most recent)     *)
(* 100 messages of the thread: with more than 100 stored messages the      *)
(* newest 100 are loaded and the oldest are left out.                      *)
(***************************************************************************)
C20_SummaryLoadsNewestMessages ==
    (args.fn = "getThreadSummary" /\ result.returned) =>
        LET n == Len(args.rows)
            first == IF n > SummaryLimit THEN n - SummaryLimit + 1 ELSE 1
        IN result.value.loaded = SubSeq(args.rows, first, n)

(***************************************************************************)
(* C25: expandQuery never throws; without a provider key or when the       *)
(* provider fails it returns exactly [query]; otherwise it returns the     *)
(* original query followed by at most 2 alternative phrasings, the first   *)
(* lines of the answer that are neither empty nor 500 characters or more.  *)
(***************************************************************************)
C25_ExpandQueryDegrades ==
    (args.fn = "expandQuery" /\ result.returned) =>
        /\ ~result.threw
        /\ args.outcome.kind # "answered" => result.value = <<args.query>>
        /\ Head(result.value) = args.query
        /\ Len(result.value) <= 3
        /\ \A j \in 2..Len(result.value) :
              /\ result.value[j] = KeptLines(args.outcome.lines)[j - 1]
              /\ result.value[j] > 0
              /\ result.value[j] < 500

\* the provider answered three usable lines and two of them were kept
C25_Witness ==
    /\ args.fn = "expandQuery"
    /\ result.returned
    /\ Len(KeptLines(args.outcome.lines)) = 3
    /\ Len(result.value) = 3

(***************************************************************************)
(* Helpers of the claims about compressContext.                            *)
(***************************************************************************)
\* the rank of the first chunk that overflows the budget, 0 if none does
FirstOverflow(chunks, maxTokens) ==
    LET over == {j \in 1..Len(chunks) :
                    SumTokens(SubSeq(chunks, 1, j)) > maxTokens}
    IN IF over = {} THEN 0
       ELSE CHOOSE j \in over : \A i \in over : j <= i

\* the tokens left when the chunk of rank j is reached
RemainingAt(chunks, maxTokens, j) ==
    maxTokens - SumTokens(SubSeq(chunks, 1, j - 1))

(***************************************************************************)
(* C29: in compressContext the first chunk that would overflow the budget  *)
(* is truncated to the remaining token budget (remaining tokens x 4        *)
(* characters), suffixed with the truncation marker and appended as the    *)
(* last output element; accumulation then stops.                           *)
(***************************************************************************)
C29_OverflowChunkTruncated ==
    (args.fn = "compressContext" /\ result.returned
     /\ FirstOverflow(args.chunks, args.maxTokens) > 0) =>
        LET j == FirstOverflow(args.chunks, args.maxTokens)
            remaining == RemainingAt(args.chunks, args.maxTokens, j)
            last == result.value[Len(result.value)]
        IN /\ Len(result.value) = j
           /\ SubSeq(result.value, 1, j - 1) = SubSeq(args.chunks, 1, j - 1)
           /\ last.chunk_no = args.chunks[j].chunk_no
           /\ last.tokens = remaining
           /\ last.len = SubstringLen(args.chunks[j].len, remaining * 4) + 3

(***************************************************************************)
(* C29 as amended: the first chunk that would overflow is truncated and    *)
(* appended as above when more than 50 tokens of the budget remain; with   *)
(* 50 tokens or fewer remaining it is dropped; accumulation stops in both  *)
(* cases.                                                                  *)
(***************************************************************************)
C29_OverflowChunkTruncatedIfRoom ==
    (args.fn = "compressContext" /\ result.returned
     /\ FirstOverflow(args.chunks, args.maxTokens) > 0) =>
        LET j == FirstOverflow(args.chunks, args.maxTokens)
            remaining == RemainingAt(args.chunks, args.maxTokens, j)
        IN /\ SubSeq(result.value, 1, j - 1) = SubSeq(args.chunks, 1, j - 1)
           /\ IF remaining > 50
              THEN /\ Len(result.value) = j
                   /\ result.value[j].chunk_no = args.chunks[j].chunk_no
                   /\ result.value[j].tokens = remaining
                   /\ result.value[j].len =
                         SubstringLen(args.chunks[j].len, remaining * 4) + 3
              ELSE Len(result.value) = j - 1

\* the second of three chunks overflowed with more than 50 tokens left and
\* came out cut to the remaining budget, as the last element
C29_Witness ==
    /\ args.fn = "compressContext"
    /\ result.returned
    /\ Len(args.chunks) = 3
    /\ FirstOverflow(args.chunks, args.maxTokens) = 2
    /\ RemainingAt(args.chunks, args.maxTokens, 2) > 50
    /\ Len(result.value) = 2
    /\ result.value[2].len = 4 * result.value[2].tokens + 3

(***************************************************************************)
(* C30: the output of compressContext is a prefix of the ranked input in   *)
(* unchanged order, of which only the last element may be a truncated      *)
(* copy: no chunk is kept while an earlier-ranked chunk is dropped.        *)
(***************************************************************************)
C30_CompressedIsPrefix ==
    (args.fn = "compressContext" /\ result.returned) =>
        LET n == Len(result.value) IN
        /\ n <= Len(args.chunks)
        /\ \A j \in 1..n : result.value[j].chunk_no = args.chunks[j].chunk_no
        /\ \A j \in 1..(n - 1) : result.value[j] = args.chunks[j]

\* the second of three chunks was dropped and the third, which alone would
\* have fitted, was not kept
C30_Witness ==
    /\ args.fn = "compressContext"
    /\ result.returned
    /\ Len(args.chunks) = 3
    /\ Len(result.value) = 1
    /\ result.value[1].tokens + args.chunks[3].tokens <= args.maxTokens

(***************************************************************************)
(* C28: during a single build the progress stored in the status row never  *)
(* decreases and only takes the values 0, 10, 30, 50, 80 and 100; a row    *)
(* with status READY has progress 100.  (A triggerIndex call starts a new  *)
(* build and resets the progress to 0.)                                    *)
(***************************************************************************)
C28_ProgressMonotone ==
    [][(pdfIndexes' # pdfIndexes) =>
          /\ pdfIndexes'.progress \in {0} \cup ProgressValues
          /\ pdfIndexes'.status = "READY" => pdfIndexes'.progress = 100
          /\ lastWrite'.kind # "trigger" =>
                pdfIndexes'.progress >= pdfIndexes.progress]_vars

(***************************************************************************)
(* C27: within one chat turn the stages run one after the other in the     *)
(* order retrieve, build memory, build prompt, stream, persist: a stage    *)
(* begins only when the previous one has completed, and the turn's         *)
(* messages are persisted only after streaming.                            *)
(***************************************************************************)
StageOrder ==
    {<<"retrieve", "summary">>, <<"summary", "prompt">>,
     <<"prompt", "stream">>, <<"stream", "saveAssistant">>,
     <<"saveAssistant", "sendDone">>}

Stages == {"retrieve", "summary", "prompt", "stream", "saveAssistant"}

C27_StagesInOrder ==
    [][/\ (turn.pc \in Stages /\ turn'.pc # turn.pc /\ turn'.pc # "ended") =>
              <<turn.pc, turn'.pc>> \in StageOrder
       /\ pdfMessages' # pdfMessages =>
              provider.state = "completed"]_vars

(***************************************************************************)
(* C26: when extraction yields no text, chunkText produces zero chunks and *)
(* the build treats this as an empty index: a build of such a document     *)
(* whose reads, provider and write did not fail ends READY with chunkCount *)
(* 0 and an artifact without chunks, and retrieveContext on it returns     *)
(* the "No index found or index is empty" error result.                    *)
(***************************************************************************)
C26_EmptyContentGivesEmptyIndex ==
    [][\A i \in Calls :
        (IsFinalWrite(i) /\ calls[i].ok /\ calls[i].src # 0
         /\ ChunkCountOf(calls[i].src) = 0) =>
            /\ pdfIndexes'.status = "READY"
            /\ pdfIndexes'.chunkCount = 0
            /\ loadIndexQuiet(indexFile').ok
            /\ loadIndexQuiet(indexFile').chunks = <<>>
            /\ retrieveContext(indexFile') =
                  {[chunks |-> <<>>,
                    error |-> "No index found or index is empty"]}]_vars

\* a build of the document without text has ended READY with no chunk, no
\* embedding request and an artifact on disk
C26_Witness ==
    /\ pdfIndexes.status = "READY"
    /\ pdfIndexes.chunkCount = 0
    /\ pdfIndexes.checksum = computeChecksum(NumContents)
    /\ indexFile.exists
    /\ embedCalls = 0
    /\ lastWrite.kind = "final"

(***************************************************************************)
(* Helpers of the claims about the summary.                                *)
(***************************************************************************)
RECURSIVE SumChars(_)
\* the characters of the segments of a summary, markers left out
SumChars(summary) ==
    IF summary = <<>> THEN 0
    ELSE Head(summary).chars + SumChars(Tail(summary))

RECURSIVE SumLineLens(_)
SumLineLens(messages) ==
    IF messages = <<>> THEN 0
    ELSE LineLen(Head(messages)) + SumLineLens(Tail(messages))

\* length of a text of n lines with chars characters in the lines
JoinedLen(n, chars) == IF n = 0 THEN 0 ELSE chars + n - 1

\* the summary is the first 5 of the old messages, each cut to its role and
\* at most 100 characters of content and followed by the marker
IsTruncationOfFirstFive(summary, old) ==
    /\ Len(summary) = (IF Len(old) < 5 THEN Len(old) ELSE 5)
    /\ \A j \in 1..Len(summary) :
          /\ summary[j].id = old[j].id
          /\ summary[j].marker
          /\ summary[j].chars <= RoleLen(old[j].role) + 2 + 100
          /\ old[j].content <= 100 => summary[j].chars = LineLen(old[j])
          /\ old[j].content > 100 =>
                summary[j].chars = RoleLen(old[j].role) + 2 + 100

\* the summary is the first 1000 characters of the old transcript followed
\* by one marker
IsCutOfTranscript(summary, old) ==
    LET whole == JoinedLen(Len(old), SumLineLens(old)) IN
    /\ Len(summary) <= Len(old)
    /\ JoinedLen(Len(summary), SumChars(summary)) =
          (IF whole < 1000 THEN whole ELSE 1000)
    /\ \A j \in 1..Len(summary) :
          /\ summary[j].id = old[j].id
          /\ summary[j].marker = (j = Len(summary))
          /\ j < Len(summary) => summary[j].chars = LineLen(old[j])
          /\ summary[j].chars <= LineLen(old[j])

\* getThreadSummary returned the summary segment and the recent messages
SummaryThenRecent ==
    /\ ~result.threw
    /\ result.value.mode = "summarized"
    /\ result.value.old \o result.value.verbatim = result.value.loaded
    /\ Len(result.value.verbatim) =
          (IF Len(result.value.loaded) < 10 THEN Len(result.value.loaded)
           ELSE 10)

\* getThreadSummary was called on a thread that needs a summary
SummaryNeeded ==
    /\ args.fn = "getThreadSummary"
    /\ result.returned
    /\ SumTokenCounts(getThreadMessages(args.rows, ThreadId, 100)) >= 2500

(***************************************************************************)
(* C21: summarization inside getThreadSummary never fails the caller; when *)
(* the provider is unavailable (no key, or the call fails) the summary is  *)
(* the truncation of the first 5 old messages to about 100 characters      *)
(* each, and getThreadSummary returns the summary followed by the recent   *)
(* messages.                                                               *)
(***************************************************************************)
C21_FallbackIsTruncationOfFirstFive ==
    SummaryNeeded =>
        /\ SummaryThenRecent
        /\ args.outcome.kind \in {"noKey", "failed"} =>
              IsTruncationOfFirstFive(result.value.summary, result.value.old)

(***************************************************************************)
(* C21 as the code has it: summarization never fails the caller and the    *)
(* summary is followed by the recent messages; without a provider key the  *)
(* summary is the truncation of the first 5 old messages to about 100      *)
(* characters each, and when the provider call fails it is the first 1000  *)
(* characters of the transcript of the old messages followed by "...".     *)
(***************************************************************************)
C21_FallbackByCause ==
    SummaryNeeded =>
        /\ SummaryThenRecent
        /\ args.outcome.kind = "noKey" =>
              IsTruncationOfFirstFive(result.value.summary, result.value.old)
        /\ args.outcome.kind = "failed" =>
              IsCutOfTranscript(result.value.summary, result.value.old)

\* both fallbacks happened on long threads: the no-key one kept 5 of 90 old
\* messages, the failed call kept the cut transcript of more than 5
C21_Witness ==
    /\ SummaryNeeded
    /\ Len(result.value.old) = 90
    /\ \/ /\ args.outcome.kind = "noKey"
          /\ Len(result.value.summary) = 5
          /\ result.value.summary[1].chars = 106
       \/ /\ args.outcome.kind = "failed"
          /\ Len(result.value.summary) > 5

(***************************************************************************)
(* Helpers of the claims about chunkText.                                  *)
(***************************************************************************)
RECURSIVE DocumentWords(_, _)
\* the words of pages pageNum and later in reading order
DocumentWords(pageTexts, pageNum) ==
    IF pageNum > Len(pageTexts) THEN <<>>
    ELSE WordsOfPage(pageTexts, pageNum)
         \o DocumentWords(pageTexts, pageNum + 1)

\* the words of a chunk that were not seeded from the previous chunk
CoreWords(chunk) ==
    SubSeq(chunk.content, chunk.seeded + 1, Len(chunk.content))

RECURSIVE ConcatCore(_)
ConcatCore(chunks) ==
    IF chunks = <<>> THEN <<>>
    ELSE CoreWords(Head(chunks)) \o ConcatCore(Tail(chunks))

\* the seeded words of a chunk are the last words of the chunk before it
SeedsAreTail(chunks, i) ==
    LET n == chunks[i].seeded
        prev == chunks[i - 1].content
    IN  /\ n <= Len(prev)
        /\ SubSeq(chunks[i].content, 1, n) =
              SubSeq(prev, Len(prev) - n + 1, Len(prev))

ChunkTextReturned == args.fn = "chunkText" /\ result.returned

(***************************************************************************)
(* C22: for any page texts, chunkSize and overlap, the token estimate of   *)
(* every chunk is at most chunkSize, except for the overflow of the single *)
(* word that opened it: it never exceeds chunkSize by more than the tokens *)
(* of that word.                                                           *)
(***************************************************************************)
C22_ChunkTokensBounded ==
    ChunkTextReturned =>
        \A i \in 1..Len(result.value) :
            LET chunk == result.value[i]
                opener == chunk.content[chunk.seeded + 1]
            IN  chunk.tokens <=
                    args.chunkSize + estimateTokens(opener.len + 1)

(***************************************************************************)
(* C23: removing from each chunk after the first the words seeded from the *)
(* previous chunk and concatenating what remains of all chunks in order    *)
(* gives exactly the words of the document in reading order; the final     *)
(* buffer is saved as the last chunk.                                      *)
(***************************************************************************)
C23_CoreReconstructsDocument ==
    ChunkTextReturned =>
        /\ ConcatCore(result.value) = DocumentWords(args.pageTexts, 1)
        /\ result.value # <<>> => result.value[1].seeded = 0
        /\ \A i \in 2..Len(result.value) : SeedsAreTail(result.value, i)
        /\ \A i \in 1..Len(result.value) : CoreWords(result.value[i]) # <<>>

\* a document of two pages gave three chunks, the later ones seeded
C23_Witness ==
    /\ ChunkTextReturned
    /\ Len(args.pageTexts) = 2
    /\ Len(result.value) = 3
    /\ result.value[2].seeded = 1
    /\ result.value[3].seeded = 1
    /\ Len(result.value[3].content) = 2

(***************************************************************************)
(* C24: every chunk has page_start <= page_end, and chunk i of the output  *)
(* (counted from zero) has chunk_no = i.                                   *)
(***************************************************************************)
C24_PagesOrderedNumbersDense ==
    ChunkTextReturned =>
        \A i \in 1..Len(result.value) :
            /\ result.value[i].page_start <= result.value[i].page_end
            /\ result.value[i].chunk_no = i - 1

\* chunks were closed on the second page: one spans both pages and a later
\* one starts on the second
C24_Witness ==
    /\ ChunkTextReturned
    /\ Len(result.value) >= 2
    /\ \E i \in 1..Len(result.value) :
          result.value[i].page_start < result.value[i].page_end
    /\ \E i \in 1..Len(result.value) : result.value[i].page_start = 2

RECURSIVE PageOfWord(_, _, _)
\* the page that holds the word with the given position, searched from
\* pageNum on
PageOfWord(pageTexts, id, pageNum) ==
    IF pageNum >= Len(pageTexts) THEN pageNum
    ELSE IF id <= WordsBefore(pageTexts, pageNum + 1) THEN pageNum
    ELSE PageOfWord(pageTexts, id, pageNum + 1)

(***************************************************************************)
(* C32: after chunkText closes a chunk, the buffer of the next chunk       *)
(* starts with exactly the last overlap words of the closed chunk (all of  *)
(* its words when it has fewer), followed by the word that triggered the   *)
(* split.                                                                  *)
(***************************************************************************)
C32_SeedIsLastOverlapWords ==
    ChunkTextReturned =>
        \A i \in 2..Len(result.value) :
            LET prev == result.value[i - 1].content
                n == IF args.overlap < Len(prev) THEN args.overlap
                     ELSE Len(prev)
            IN  /\ result.value[i].seeded = n
                /\ SeedsAreTail(result.value, i)
                /\ Len(result.value[i].content) > n

(***************************************************************************)
(* C33: for every chunk produced by chunkText, page_start is the page of   *)
(* the first word contained in the chunk and page_end is the page of the   *)
(* last word contained in the chunk.                                       *)
(***************************************************************************)
C33_PagesOfFirstAndLastWord ==
    ChunkTextReturned =>
        \A i \in 1..Len(result.value) :
            LET words == result.value[i].content IN
            /\ result.value[i].page_start =
                  PageOfWord(args.pageTexts, words[1].id, 1)
            /\ result.value[i].page_end =
                  PageOfWord(args.pageTexts, words[Len(words)].id, 1)

(***************************************************************************)
(* Helpers of the claims about mmrSearch.                                  *)
(***************************************************************************)
\* the candidates of the call in descending order of boosted similarity
SortedCandidates ==
    SortBySimilarity([j \in 1..Len(args.chunks) |->
        Candidate(args.chunks[j], SumVectors(args.queryEmbeds),
                  Len(args.chunks))])

\* the largest cosine of candidate to one of the selected chunks
LargestSimilarity(candidate, selected) ==
    CHOOSE s \in {cosineSimilarity(candidate.embedding, selected[j].embedding) :
                    j \in 1..Len(selected)} :
        \A j \in 1..Len(selected) :
            cosineSimilarity(candidate.embedding, selected[j].embedding) <= s

\* lambda * relevance - (1 - lambda) * (maximum similarity to the selected)
MarginalScore(candidate, selected, lambda) ==
    lambda * candidate.similarity
    - (1000 - lambda) * LargestSimilarity(candidate, selected)

\* position of the chunk with this chunk_no in the sorted candidates
RankOf(chunkNo) ==
    CHOOSE r \in 1..Len(SortedCandidates) :
        SortedCandidates[r].chunk_no = chunkNo

MmrReturned ==
    args.fn = "mmrSearch" /\ result.returned /\ ~result.threw

(***************************************************************************)
(* C31: mmrSearch selects greedily: the first selected chunk has the       *)
(* highest boosted similarity (for k = 1 the result is exactly that        *)
(* chunk); every later selection is the remaining chunk maximizing         *)
(* lambda * relevance - (1 - lambda) * (maximum similarity to the chunks   *)
(* already selected), ties going to the first in descending-similarity     *)
(* order; for lambda = 1 the result is the descending-relevance ranking.   *)
(***************************************************************************)
C31_GreedyMmrSelection ==
    MmrReturned =>
        LET sel == result.value
            sorted == SortedCandidates
        IN  /\ sel # <<>> => sel[1] = sorted[1]
            /\ (args.k = 1 /\ sorted # <<>>) => sel = <<sorted[1]>>
            /\ \A j \in 2..Len(sel) :
                  LET chosen == SubSeq(sel, 1, j - 1)
                      score == MarginalScore(sel[j], chosen, args.lambda)
                  IN  \A r \in 1..Len(sorted) :
                        (\A i \in 1..(j - 1) :
                            sel[i].chunk_no # sorted[r].chunk_no) =>
                          LET other == MarginalScore(sorted[r], chosen,
                                                     args.lambda)
                          IN  /\ other <= score
                              /\ other = score =>
                                    RankOf(sel[j].chunk_no) <= r
            /\ args.lambda = 1000 =>
                  sel = SubSeq(sorted, 1, Len(sel))

(***************************************************************************)
(* C34: if the summed token estimate of the loaded messages is below 2500, *)
(* getThreadSummary returns the verbatim transcript of all of them, oldest *)
(* first; otherwise it returns a summary segment computed from all but the *)
(* last 10 of them followed by the last 10 verbatim.                       *)
(***************************************************************************)
C34_VerbatimBelowThreshold ==
    (args.fn = "getThreadSummary" /\ result.returned) =>
        LET out == result.value
            loaded == out.loaded
            n == Len(loaded)
        IN  /\ ~result.threw
            /\ \A j \in 2..n : loaded[j - 1].createdAt < loaded[j].createdAt
            /\ IF SumTokenCounts(loaded) < 2500
               THEN /\ out.mode \in {"empty", "verbatim"}
                    /\ out.verbatim = loaded
                    /\ out.summary = <<>>
               ELSE /\ out.mode = "summarized"
                    /\ out.old = [j \in 1..(IF n > 10 THEN n - 10 ELSE 0) |->
                                    loaded[j]]
                    /\ out.old \o out.verbatim = loaded
                    /\ Len(out.verbatim) = (IF n > 10 THEN 10 ELSE n)
                    /\ out.old = <<>> => out.summary = <<>>
                    /\ \A j \in 1..Len(out.summary) :
                          \/ out.summary[j].id = 0
                          \/ \E i \in 1..Len(out.old) :
                                out.summary[j].id = out.old[i].id

\* a thread of 100 messages with 3000 tokens gave the provider's summary of
\* the first 90 followed by the last 10
C34_Witness ==
    /\ args.fn = "getThreadSummary"
    /\ result.returned
    /\ Len(args.rows) = 100
    /\ SumTokenCounts(args.rows) = 3000
    /\ args.outcome.kind = "answered"
    /\ result.value.summary = <<Segment(0, 1200, FALSE)>>
    /\ Len(result.value.old) = 90
    /\ Len(result.value.verbatim) = 10
    /\ result.value.verbatim[10].id = 100

(***************************************************************************)
(* Helpers of the claims about the memory in the prompt.                   *)
(***************************************************************************)
\* tokens of the system instructions with the document label and of the
\* user text
SystemAndUserTokens ==
    estimateTokens(FullSystemPromptLen(args.systemPrompt, args.fileName))
    + estimateTokens(args.userMessage)

\* characters of the memory left by the budget: (ceiling - 500 - used) * 4
RemainingMemoryChars ==
    IF SystemAndUserTokens >= 2800 - 500 THEN 0
    ELSE (2800 - 500 - SystemAndUserTokens) * 4

\* the memory message of the returned prompt: "Previous conversation:\n"
\* and the memory
MemoryMessage == result.value.messages[3]

\* buildPrompt was called with a memory and returned
PromptWithMemory ==
    args.fn = "buildPrompt" /\ result.returned /\ args.threadSummary > 0

\* the system instructions and document label are whole, and the memory
\* has its message
SystemWholeMemoryPresent ==
    /\ result.value.messages[1] =
          PromptMessage("system", FullSystemPromptLen(args.systemPrompt,
                                                      args.fileName))
    /\ Len(result.value.messages) = 4
    /\ MemoryMessage.role = "system"

\* the memory cut to the remaining character budget, with the marker
CutMemoryLen ==
    (IF args.threadSummary < RemainingMemoryChars THEN args.threadSummary
     ELSE RemainingMemoryChars) + 3

(***************************************************************************)
(* C35: buildPrompt never truncates the system instructions plus document  *)
(* label; the memory is included unchanged when it fits within ceiling -   *)
(* 500 together with the system and user text (their summed estimate is at *)
(* most ceiling - 500), and otherwise is cut to the remaining character    *)
(* budget and suffixed with an ellipsis marker.                            *)
(***************************************************************************)
C35_MemoryWholeIfItFits ==
    PromptWithMemory =>
        /\ SystemWholeMemoryPresent
        /\ MemoryMessage.content =
              23 + (IF SystemAndUserTokens
                       + estimateTokens(args.threadSummary) <= 2800 - 500
                    THEN args.threadSummary
                    ELSE CutMemoryLen)

(***************************************************************************)
(* C36: in every reachable state, a status record with status READY        *)
(* implies that an index artifact of the document exists on disk whose     *)
(* checksum and chunk count equal the checksum and chunkCount stored in    *)
(* the record.                                                             *)
(***************************************************************************)
C36_ReadyRowHasMatchingArtifact ==
    (pdfIndexes.present /\ pdfIndexes.status = "READY") =>
        /\ indexFile.exists
        /\ loadIndexQuiet(indexFile).ok
        /\ loadIndexQuiet(indexFile).checksum = pdfIndexes.checksum
        /\ Len(loadIndexQuiet(indexFile).chunks) = pdfIndexes.chunkCount
        /\ loadIndexQuiet(indexFile).totalChunks = pdfIndexes.chunkCount

(***************************************************************************)
(* Helpers of the claims about the stored messages of a turn.              *)
(***************************************************************************)
\* number of stored messages with the role
CountRole(role) ==
    Cardinality({j \in 1..Len(pdfMessages) : pdfMessages[j].role = role})

\* the messages stored since the request of the current turn arrived
StoredByTurn ==
    SubSeq(pdfMessages, Len(turn.before) + 1, Len(pdfMessages))

TokenContents ==
    LET tokens == SelectSeq(events, LAMBDA e : e.type = "token") IN
    [j \in 1..Len(tokens) |-> tokens[j].content]

\* the done event of the current turn has been written
DoneWritten == \E j \in 1..Len(events) : events[j].type = "done"

(***************************************************************************)
(* C38: on a turn that ends with done, the content of the stored assistant *)
(* message is the in-order concatenation of the contents of all token      *)
(* events sent in that turn, the message is stored before done is written, *)
(* and the citations stored with it equal the citations carried by the     *)
(* done event.                                                             *)
(***************************************************************************)
C38_StoredAnswerIsWhatWasSent ==
    DoneWritten =>
        /\ Len(pdfMessages) = Len(turn.before) + 2
        /\ pdfMessages[Len(pdfMessages)].role = "assistant"
        /\ pdfMessages[Len(pdfMessages)].content = TokenContents
        /\ events[Len(events)].type = "done"
        /\ pdfMessages[Len(pdfMessages)].citations =
              events[Len(events)].content

\* a turn ended with done after two tokens and with a cited chunk
C38_Witness ==
    /\ DoneWritten
    /\ turn.outcome = "done"
    /\ Len(TokenContents) = 2
    /\ TokenContents[1] # TokenContents[2]
    /\ Len(events[Len(events)].content) >= 1

\* the columns a READY write supplies beside status and progress
BuildColumns == {"checksum", "chunkCount", "indexPath", "indexedAt"}

====
